---- MODULE Spec2Model ----
(***************************************************************************)
(* Authentication and session lifecycle of the HostelRec backend           *)
(* (src/backend/app): credential hashing, JWT issue/verify, the session    *)
(* table, the two in-memory one-time code stores and the auth routes.      *)
(*                                                                         *)
(* The clock `now` counts minutes.  Timestamps the code truncates to a     *)
(* whole unit (the JWT exp claim) are truncated to the clock's granule.    *)
(***************************************************************************)
EXTENDS Integers, Sequences, FiniteSets, TLC

VARIABLES
    now,                   \* datetime.now(timezone.utc), in minutes
    users,                 \* table hostel_users, keyed by username
    sessions,              \* table user_sessions: a set of rows
    nextSessionId,         \* autoincrement of user_sessions.id
    issued,                \* bearer tokens handed to clients so far
    password_reset_codes,  \* password_reset_service._password_reset_codes
    mfa_codes,             \* mfa_service._mfa_codes
    nextRid,               \* identity of the next code record (dict object)
    consumed,              \* identities of records once accepted or found expired
    reqs,                  \* requests in flight on the event loop
    resp                   \* outcome of the operation that ran last

vars == <<now, users, sessions, nextSessionId, issued, password_reset_codes,
          mfa_codes, nextRid, consumed, reqs, resp>>

-----------------------------------------------------------------------------
(* Program constants *)

\* timedelta(minutes=10) of create_mfa_code
MFA_CODE_MINUTES == 10
\* timedelta(minutes=30) of create_password_reset_code
RESET_CODE_MINUTES == 30
\* expires_minutes=60 passed to create_session by login and signup
SESSION_EXPIRE_MINUTES == 60
\* Settings.auth_token_expire_minutes
AUTH_TOKEN_EXPIRE_MINUTES == 60
\* len(payload.new_password) < 6 of reset_password
MIN_RESET_PASSWORD_LEN == 6

(* Bounds of the model *)

\* minutes one step of the clock advances
TickMinutes == 10
\* the clock stops here
MaxTime == 40
\* code records ever stored (both stores together)
MaxCodes == 2

-----------------------------------------------------------------------------
(* Input domains *)

Usernames == {"alice@x", "bob@x", "carol@x"}
Passwords == {"secret1", "abc"}
Salts == {"s1", "s2"}

\* generate_reset_code draws 8 characters of A-Z0-9, generate_mfa_code 6 digits
ResetCodeSpace == {"AB12CD34", "ZZ99YY88"}
MfaCodeSpace == {"123456", "654321"}
\* what a client may submit: well-formed codes, the stored one or another
SubmittedResetCodes == ResetCodeSpace
SubmittedMfaCodes == MfaCodeSpace

NoUser == [id |-> 0]
\* Optional[...] values: None, or the value wrapped
None == <<>>
Some(x) == <<x>>

-----------------------------------------------------------------------------
(* Credential hasher: pbkdf2_sha256 with a random salt kept in the hash *)

Digest(salt, password) == <<"pbkdf2_sha256", salt, password>>

get_password_hash(password, salt) ==
    [salt |-> salt, digest |-> Digest(salt, password)]

\* the salt passlib draws for a new hash: never the one of the hash replaced
FreshSalts(old_hash) == Salts \ {old_hash.salt}

verify_password(plain_password, hashed_password) ==
    Digest(hashed_password.salt, plain_password) = hashed_password.digest

-----------------------------------------------------------------------------
(* User table *)

\* select(User).where(User.username == name) ... scalar_one_or_none()
UserByName(name) == IF name \in DOMAIN users THEN users[name] ELSE NoUser

\* select(User).where(User.id == id) ... scalar_one_or_none()
UserById(id) ==
    IF \E n \in DOMAIN users : users[n].id = id
    THEN users[CHOOSE n \in DOMAIN users : users[n].id = id]
    ELSE NoUser

\* users[...].password = hash, committed
SetPassword_NotStored(tbl, user_id, hash) == tbl
SetPassword(tbl, user_id, hash) ==
    [n \in DOMAIN tbl |->
        IF tbl[n].id = user_id THEN [tbl[n] EXCEPT !.password = hash] ELSE tbl[n]]

InitUsers ==
    [n \in {"alice@x", "bob@x"} |->
        [id |-> IF n = "alice@x" THEN 1 ELSE 2,
         username |-> n,
         password |-> get_password_hash("secret1", "s1"),
         role |-> IF n = "alice@x" THEN "customer" ELSE "manager",
         mfa_enabled |-> FALSE,
         mfa_secret |-> None]]

-----------------------------------------------------------------------------
(* Python dict operations on the code stores *)

DictSet(d, k, v) == [x \in DOMAIN d \cup {k} |-> IF x = k THEN v ELSE d[x]]
DictDel(d, k) == [x \in DOMAIN d \ {k} |-> d[x]]
EmptyDict == <<>>

-----------------------------------------------------------------------------
(* One-time code service: password reset codes, keyed by email *)

\* reset_data["used"] = True
MarkResetUsed_Forgotten(reset_data) == reset_data
MarkResetUsed(reset_data) == [reset_data EXCEPT !.used = TRUE]

\* the dict entry written by create_password_reset_code
NewResetRecord(code, t, user_id, rid) ==
    [code |-> code, expires_at |-> t + RESET_CODE_MINUTES, used |-> FALSE,
     user_id |-> user_id, rid |-> rid]

\* create_password_reset_code: [store, result] for a chosen random code
CreateResetCode_KeepOld(store, t, user_email, code, rid) ==
    LET user == UserByName(user_email) IN
    IF user = NoUser THEN [store |-> store, result |-> None]
    ELSE IF user_email \in DOMAIN store THEN [store |-> store, result |-> Some(code)]
    ELSE [store |-> DictSet(store, user_email, NewResetRecord(code, t, user.id, rid)),
          result |-> Some(code)]
CreateResetCode_AnyEmail(store, t, user_email, code, rid) ==
    [store |-> DictSet(store, user_email, NewResetRecord(code, t, 0, rid)),
     result |-> Some(code)]
CreateResetCode(store, t, user_email, code, rid) ==
    LET user == UserByName(user_email) IN
    IF user = NoUser THEN [store |-> store, result |-> None]
    ELSE [store |-> DictSet(store, user_email, NewResetRecord(code, t, user.id, rid)),
          result |-> Some(code)]

\* verify_password_reset_code: [store, result, rid, expired]; rid names the
\* record that was looked at (0: none)
VerifyResetCode_ConsumeOnMismatch(store, t, user_email, code) ==
    IF user_email \notin DOMAIN store
    THEN [store |-> store, result |-> None, rid |-> 0, expired |-> FALSE]
    ELSE LET reset_data == store[user_email] IN
         IF reset_data.used
         THEN [store |-> store, result |-> None, rid |-> reset_data.rid, expired |-> FALSE]
         ELSE IF t > reset_data.expires_at
         THEN [store |-> DictDel(store, user_email), result |-> None,
               rid |-> reset_data.rid, expired |-> TRUE]
         ELSE [store |-> DictSet(store, user_email, MarkResetUsed(reset_data)),
               result |-> IF reset_data.code # code THEN None ELSE Some(reset_data.user_id),
               rid |-> reset_data.rid, expired |-> FALSE]
VerifyResetCode_NoExpiry(store, t, user_email, code) ==
    IF user_email \notin DOMAIN store
    THEN [store |-> store, result |-> None, rid |-> 0, expired |-> FALSE]
    ELSE LET reset_data == store[user_email] IN
         IF reset_data.used
         THEN [store |-> store, result |-> None, rid |-> reset_data.rid, expired |-> FALSE]
         ELSE IF reset_data.code # code
         THEN [store |-> store, result |-> None, rid |-> reset_data.rid, expired |-> FALSE]
         ELSE [store |-> DictSet(store, user_email, MarkResetUsed(reset_data)),
               result |-> Some(reset_data.user_id), rid |-> reset_data.rid, expired |-> FALSE]
VerifyResetCode(store, t, user_email, code) ==
    IF user_email \notin DOMAIN store
    THEN [store |-> store, result |-> None, rid |-> 0, expired |-> FALSE]
    ELSE LET reset_data == store[user_email] IN
         IF reset_data.used
         THEN [store |-> store, result |-> None, rid |-> reset_data.rid, expired |-> FALSE]
         ELSE IF t > reset_data.expires_at
         THEN [store |-> DictDel(store, user_email), result |-> None,
               rid |-> reset_data.rid, expired |-> TRUE]
         ELSE IF reset_data.code # code
         THEN [store |-> store, result |-> None, rid |-> reset_data.rid, expired |-> FALSE]
         ELSE [store |-> DictSet(store, user_email, MarkResetUsed(reset_data)),
               result |-> Some(reset_data.user_id), rid |-> reset_data.rid, expired |-> FALSE]

\* cleanup_expired_reset_codes: [store, result]
CleanupResetCodes(store, t) ==
    LET expired_emails == {e \in DOMAIN store : t > store[e].expires_at} IN
    [store |-> [e \in DOMAIN store \ expired_emails |-> store[e]],
     result |-> Cardinality(expired_emails)]

-----------------------------------------------------------------------------
(* One-time code service: MFA codes, keyed by str(user_id) *)

\* mfa_data["used"] = True
MarkMfaUsed_Forgotten(mfa_data) == mfa_data
MarkMfaUsed(mfa_data) == [mfa_data EXCEPT !.used = TRUE]

NewMfaRecord(code, t, rid) ==
    [code |-> code, expires_at |-> t + MFA_CODE_MINUTES, used |-> FALSE, rid |-> rid]

\* create_mfa_code: [store, result]
CreateMfaCode(store, t, user_id, code, rid) ==
    [store |-> DictSet(store, ToString(user_id), NewMfaRecord(code, t, rid)),
     result |-> Some(code)]

\* verify_mfa_code: [store, result, rid, expired]
VerifyMfaCode_MissingAccepted(store, t, user_id, code) ==
    [store |-> store, result |-> TRUE, rid |-> 0, expired |-> FALSE]
VerifyMfaCode(store, t, user_id, code) ==
    LET user_id_str == ToString(user_id) IN
    IF user_id_str \notin DOMAIN store
    THEN [store |-> store, result |-> FALSE, rid |-> 0, expired |-> FALSE]
    ELSE LET mfa_data == store[user_id_str] IN
         IF mfa_data.used
         THEN [store |-> store, result |-> FALSE, rid |-> mfa_data.rid, expired |-> FALSE]
         ELSE IF t > mfa_data.expires_at
         THEN [store |-> DictDel(store, user_id_str), result |-> FALSE,
               rid |-> mfa_data.rid, expired |-> TRUE]
         ELSE IF mfa_data.code # code
         THEN [store |-> store, result |-> FALSE, rid |-> mfa_data.rid, expired |-> FALSE]
         ELSE [store |-> DictSet(store, user_id_str, MarkMfaUsed(mfa_data)),
               result |-> TRUE, rid |-> mfa_data.rid, expired |-> FALSE]

\* the records whose identity joins `consumed` after a verify
Consumed(r, ok) == IF ok \/ r.expired THEN {r.rid} ELSE {}

-----------------------------------------------------------------------------
(* Initial state: two registered users, no session, empty code stores *)

Init ==
    /\ now = 0
    /\ users = InitUsers
    /\ sessions = {}
    /\ nextSessionId = 1
    /\ issued = {}
    /\ password_reset_codes = EmptyDict
    /\ mfa_codes = EmptyDict
    /\ nextRid = 1
    /\ consumed = {}
    /\ reqs = <<>>
    /\ resp = [op |-> "init"]

\* the clock advances
AdvanceClock ==
    /\ now + TickMinutes <= MaxTime
    /\ now' = now + TickMinutes
    /\ resp' = [op |-> "tick"]

-----------------------------------------------------------------------------
(* The code services called directly (SpecCodes) *)

\* owners whose MFA codes are generated and verified
MfaUserIds == {1}

CodesTick ==
    /\ AdvanceClock
    /\ UNCHANGED <<users, sessions, nextSessionId, issued, password_reset_codes,
                   mfa_codes, nextRid, consumed, reqs>>

create_password_reset_code(user_email) ==
    \E code \in ResetCodeSpace :
      LET r == CreateResetCode(password_reset_codes, now, user_email, code, nextRid) IN
      /\ r.result # None => nextRid <= MaxCodes
      /\ password_reset_codes' = r.store
      /\ nextRid' = IF r.result # None THEN nextRid + 1 ELSE nextRid
      /\ resp' = [op |-> "create_password_reset_code", key |-> user_email,
                  result |-> r.result]
      /\ UNCHANGED <<now, users, sessions, nextSessionId, issued, mfa_codes,
                     consumed, reqs>>

verify_password_reset_code(user_email, code) ==
    LET r == VerifyResetCode(password_reset_codes, now, user_email, code) IN
    /\ password_reset_codes' = r.store
    /\ consumed' = consumed \cup Consumed(r, r.result # None)
    /\ resp' = [op |-> "verify_password_reset_code", key |-> user_email,
                code |-> code, result |-> r.result, rid |-> r.rid]
    /\ UNCHANGED <<now, users, sessions, nextSessionId, issued, mfa_codes,
                   nextRid, reqs>>

cleanup_expired_reset_codes ==
    LET r == CleanupResetCodes(password_reset_codes, now) IN
    /\ password_reset_codes' = r.store
    /\ resp' = [op |-> "cleanup_expired_reset_codes", result |-> r.result]
    /\ UNCHANGED <<now, users, sessions, nextSessionId, issued, mfa_codes,
                   nextRid, consumed, reqs>>

create_mfa_code(user_id) ==
    \E code \in MfaCodeSpace :
      LET r == CreateMfaCode(mfa_codes, now, user_id, code, nextRid) IN
      /\ nextRid <= MaxCodes
      /\ mfa_codes' = r.store
      /\ nextRid' = nextRid + 1
      /\ resp' = [op |-> "create_mfa_code", key |-> ToString(user_id),
                  result |-> r.result]
      /\ UNCHANGED <<now, users, sessions, nextSessionId, issued,
                     password_reset_codes, consumed, reqs>>

verify_mfa_code(user_id, code) ==
    LET r == VerifyMfaCode(mfa_codes, now, user_id, code) IN
    /\ mfa_codes' = r.store
    /\ consumed' = consumed \cup Consumed(r, r.result)
    /\ resp' = [op |-> "verify_mfa_code", key |-> ToString(user_id),
                code |-> code, result |-> r.result, rid |-> r.rid]
    /\ UNCHANGED <<now, users, sessions, nextSessionId, issued,
                   password_reset_codes, nextRid, reqs>>

NextCodes ==
    \/ CodesTick
    \/ \E e \in Usernames : create_password_reset_code(e)
    \/ \E e \in Usernames, c \in SubmittedResetCodes : verify_password_reset_code(e, c)
    \/ cleanup_expired_reset_codes
    \/ \E u \in MfaUserIds : create_mfa_code(u)
    \/ \E u \in MfaUserIds, c \in SubmittedMfaCodes : verify_mfa_code(u, c)

SpecCodes == Init /\ [][NextCodes]_vars

-----------------------------------------------------------------------------
(* Claims about the one-time code service, checked under SpecCodes *)

IsVerify(r) == r.op \in {"verify_password_reset_code", "verify_mfa_code"}
VerifyAccepted(r) ==
    IF r.op = "verify_mfa_code" THEN r.result ELSE r.result # None

\* C1: once a verify has succeeded for a stored code record, or has found
\* that record expired, no later verify against that same record (whatever
\* code is submitted, at whatever time) is accepted; for both stores.
C1_ConsumedNeverAccepted ==
    [][(IsVerify(resp') /\ resp'.rid \in consumed) => ~VerifyAccepted(resp')]_vars

\* a second verify with the stored code, inside the TTL, was refused for a
\* reset record that was accepted before, while an MFA record is used too
C1_Witness ==
    /\ resp.op = "verify_password_reset_code"
    /\ resp.result = None
    /\ resp.rid \in consumed
    /\ resp.key \in DOMAIN password_reset_codes
    /\ password_reset_codes[resp.key].rid = resp.rid
    /\ password_reset_codes[resp.key].code = resp.code
    /\ now <= password_reset_codes[resp.key].expires_at
    /\ \E k \in DOMAIN mfa_codes : mfa_codes[k].used /\ mfa_codes[k].rid \in consumed

ResetLive(store, t, k) ==
    k \in DOMAIN store /\ ~store[k].used /\ ~(t > store[k].expires_at)

\* C3: a verify is accepted only for an existing, unused, unexpired record
\* whose code equals the submitted string; a verify refused for a mismatch
\* leaves the store as it was, and a verify with the stored code would still
\* be accepted in the state it leaves.
C3_VerifyFailsClosed ==
    [][/\ resp'.op = "verify_password_reset_code" =>
            LET k == resp'.key IN
            /\ resp'.result # None =>
                  /\ ResetLive(password_reset_codes, now, k)
                  /\ password_reset_codes[k].code = resp'.code
                  /\ resp'.result = Some(password_reset_codes[k].user_id)
            /\ (ResetLive(password_reset_codes, now, k)
                  /\ password_reset_codes[k].code # resp'.code) =>
                  /\ resp'.result = None
                  /\ password_reset_codes' = password_reset_codes
                  /\ VerifyResetCode(password_reset_codes', now', k,
                                     password_reset_codes[k].code).result # None
       /\ resp'.op = "verify_mfa_code" =>
            LET k == resp'.key IN
            /\ resp'.result =>
                  /\ ResetLive(mfa_codes, now, k)
                  /\ mfa_codes[k].code = resp'.code
            /\ (ResetLive(mfa_codes, now, k) /\ mfa_codes[k].code # resp'.code) =>
                  /\ ~resp'.result
                  /\ mfa_codes' = mfa_codes
                  /\ \E u \in MfaUserIds :
                        /\ ToString(u) = k
                        /\ VerifyMfaCode(mfa_codes', now', u, mfa_codes[k].code).result
      ]_vars

\* a reset verify was refused for a mismatch and the record is still live
C3_Witness ==
    /\ resp.op = "verify_password_reset_code"
    /\ resp.result = None
    /\ ResetLive(password_reset_codes, now, resp.key)
    /\ password_reset_codes[resp.key].code # resp.code
    /\ now > 0

-----------------------------------------------------------------------------
(* Requests in flight on the event loop (SpecConc).  A coroutine runs      *)
(* without interruption between two awaits that reach the database; one    *)
(* action is one such stretch.  verify_password_reset_code and             *)
(* verify_mfa_code contain no await, send_*_email awaits nothing.          *)

\* requests ever submitted
MaxReqs == 3

ConcEmails == {"alice@x"}
ConcPasswords == {"secret1", "abc"}
\* the code every client submits; the stored code is either value of the space
ConcResetCodes == {"AB12CD34"}
ConcMfaCodes == {"123456"}

NewRequest(op, key, code, new_password) ==
    [op |-> op, key |-> key, code |-> code, new_password |-> new_password,
     pc |-> "start", status |-> 0, user_id |-> 0, rid |-> 0,
     accepted |-> FALSE, hash |-> None, snap |-> {}]

\* a request arrives
Submit ==
    /\ Len(reqs) < MaxReqs
    /\ \E r \in {NewRequest("forgot_password", e, "", "") : e \in ConcEmails}
            \cup {NewRequest("reset_password", e, c, p) :
                     e \in ConcEmails, c \in ConcResetCodes, p \in ConcPasswords}
            \cup {NewRequest("verify_mfa_code", ToString(u), c, "") :
                     u \in MfaUserIds, c \in ConcMfaCodes} :
          reqs' = Append(reqs, r)
    /\ UNCHANGED <<now, users, sessions, nextSessionId, issued, password_reset_codes,
                   mfa_codes, nextRid, consumed, resp>>

ConcFrame == UNCHANGED <<now, sessions, nextSessionId, issued, mfa_codes, resp>>

\* forgot_password up to the await of the user select in
\* create_password_reset_code
ForgotSelectUser(i) ==
    /\ reqs[i].op = "forgot_password" /\ reqs[i].pc = "start"
    /\ LET user == UserByName(reqs[i].key) IN
       reqs' = [reqs EXCEPT ![i].user_id = user.id,
                            ![i].pc = IF user = NoUser THEN "done" ELSE "store",
                            ![i].status = IF user = NoUser THEN 200 ELSE 0]
    /\ UNCHANGED <<users, password_reset_codes, nextRid, consumed>>
    /\ ConcFrame

\* create_password_reset_code after the select: the dict write, then the
\* generic response of forgot_password
ForgotStore(i) ==
    /\ reqs[i].op = "forgot_password" /\ reqs[i].pc = "store"
    /\ nextRid <= MaxCodes
    /\ \E code \in ResetCodeSpace :
          password_reset_codes' =
              DictSet(password_reset_codes, reqs[i].key,
                      NewResetRecord(code, now, reqs[i].user_id, nextRid))
    /\ nextRid' = nextRid + 1
    /\ reqs' = [reqs EXCEPT ![i].pc = "done", ![i].status = 200]
    /\ UNCHANGED <<users, consumed>>
    /\ ConcFrame

\* reset_password from its start to the await of the user select: the whole
\* of verify_password_reset_code
ResetVerify(i) ==
    /\ reqs[i].op = "reset_password" /\ reqs[i].pc = "start"
    /\ LET r == VerifyResetCode(password_reset_codes, now, reqs[i].key, reqs[i].code) IN
       /\ password_reset_codes' = r.store
       /\ consumed' = consumed \cup Consumed(r, r.result # None)
       /\ reqs' = [reqs EXCEPT
             ![i].rid = r.rid,
             ![i].accepted = (r.result # None),
             ![i].user_id = IF r.result = None THEN 0 ELSE r.result[1],
             ![i].pc = IF r.result = None \/ r.result = Some(0)
                       THEN "done" ELSE "select_user",
             ![i].status = IF r.result = None \/ r.result = Some(0) THEN 400 ELSE 0]
    /\ UNCHANGED <<users, nextRid>>
    /\ ConcFrame

\* the user select returns; the length check; the new hash is set on the
\* loaded row and the commit is awaited
ResetSelectUser(i) ==
    /\ reqs[i].op = "reset_password" /\ reqs[i].pc = "select_user"
    /\ LET user == UserById(reqs[i].user_id) IN
       \E salt \in IF user = NoUser THEN Salts ELSE FreshSalts(user.password) :
          reqs' = [reqs EXCEPT
             ![i].pc = IF user = NoUser \/ Len(reqs[i].new_password) < MIN_RESET_PASSWORD_LEN
                       THEN "done" ELSE "commit",
             ![i].status = IF user = NoUser THEN 404
                           ELSE IF Len(reqs[i].new_password) < MIN_RESET_PASSWORD_LEN
                           THEN 400 ELSE 0,
             ![i].hash = IF user = NoUser \/ Len(reqs[i].new_password) < MIN_RESET_PASSWORD_LEN
                         THEN None
                         ELSE Some(get_password_hash(reqs[i].new_password, salt))]
    /\ UNCHANGED <<users, password_reset_codes, nextRid, consumed>>
    /\ ConcFrame

\* the commit of the new hash; end_all_user_sessions up to its select
ResetCommit(i) ==
    /\ reqs[i].op = "reset_password" /\ reqs[i].pc = "commit"
    /\ users' = SetPassword(users, reqs[i].user_id, reqs[i].hash[1])
    /\ reqs' = [reqs EXCEPT ![i].pc = "end_sessions",
                            ![i].snap = {x.id : x \in {y \in sessions :
                                 y.user_id = reqs[i].user_id /\ y.is_active}}]
    /\ UNCHANGED <<password_reset_codes, nextRid, consumed>>
    /\ ConcFrame

\* end_all_user_sessions after its select: the loaded rows are set inactive
\* and committed
ResetEndSessions(i) ==
    /\ reqs[i].op = "reset_password" /\ reqs[i].pc = "end_sessions"
    /\ sessions' = {IF x.id \in reqs[i].snap THEN [x EXCEPT !.is_active = FALSE] ELSE x :
                       x \in sessions}
    /\ reqs' = [reqs EXCEPT ![i].pc = "done", ![i].status = 200]
    /\ UNCHANGED <<now, users, nextSessionId, issued, password_reset_codes, mfa_codes,
                   nextRid, consumed, resp>>

\* verify_mfa_code, called with the id of the authenticated user
MfaVerify(i) ==
    /\ reqs[i].op = "verify_mfa_code" /\ reqs[i].pc = "start"
    /\ \E u \in MfaUserIds :
         /\ ToString(u) = reqs[i].key
         /\ LET r == VerifyMfaCode(mfa_codes, now, u, reqs[i].code) IN
            /\ mfa_codes' = r.store
            /\ consumed' = consumed \cup Consumed(r, r.result)
            /\ reqs' = [reqs EXCEPT ![i].rid = r.rid, ![i].accepted = r.result,
                                    ![i].pc = "done",
                                    ![i].status = IF r.result THEN 200 ELSE 400]
    /\ UNCHANGED <<now, users, sessions, nextSessionId, issued, password_reset_codes,
                   nextRid, resp>>

\* create_mfa_code, which no route calls, run as a whole
ConcCreateMfa ==
    /\ \E u \in MfaUserIds : create_mfa_code(u)

NextConc ==
    \/ Submit
    \/ \E i \in DOMAIN reqs : ForgotSelectUser(i)
    \/ \E i \in DOMAIN reqs : ForgotStore(i)
    \/ \E i \in DOMAIN reqs : ResetVerify(i)
    \/ \E i \in DOMAIN reqs : ResetSelectUser(i)
    \/ \E i \in DOMAIN reqs : ResetCommit(i)
    \/ \E i \in DOMAIN reqs : ResetEndSessions(i)
    \/ \E i \in DOMAIN reqs : MfaVerify(i)
    \/ ConcCreateMfa

SpecConc == Init /\ [][NextConc]_vars

\* C2: of the verification requests in flight that carry the same code for
\* the same owner key and met the same stored record, at most one is
\* accepted, in every interleaving of the requests.
C2_AtMostOneAccepted ==
    \A i, j \in DOMAIN reqs :
        (/\ i # j
         /\ reqs[i].op \in {"reset_password", "verify_mfa_code"}
         /\ reqs[i].op = reqs[j].op /\ reqs[i].key = reqs[j].key
         /\ reqs[i].code = reqs[j].code
         /\ reqs[i].rid # 0 /\ reqs[i].rid = reqs[j].rid)
        => ~(reqs[i].accepted /\ reqs[j].accepted)

\* two reset requests with the same correct code were in flight together:
\* one was accepted and has not finished, the other has been refused
C2_Witness ==
    \E i, j \in DOMAIN reqs :
        /\ reqs[i].op = "reset_password" /\ reqs[j].op = "reset_password"
        /\ reqs[i].key = reqs[j].key /\ reqs[i].code = reqs[j].code
        /\ reqs[i].rid # 0 /\ reqs[i].rid = reqs[j].rid
        /\ reqs[i].accepted /\ reqs[i].pc = "select_user"
        /\ ~reqs[j].accepted /\ reqs[j].pc = "done"

-----------------------------------------------------------------------------
(* Token issuer and verifier: HS256 over {sub, role, exp} *)

\* Settings.auth_secret_key
AUTH_SECRET_KEY == "change-me"

\* create_access_token: the JWT is a function of the payload and the key
create_access_token_DefaultRole(subject, role, t) ==
    [sub |-> subject, role |-> "customer", exp |-> t + AUTH_TOKEN_EXPIRE_MINUTES,
     key |-> AUTH_SECRET_KEY]
create_access_token(subject, role, t) ==
    [sub |-> subject, role |-> role, exp |-> t + AUTH_TOKEN_EXPIRE_MINUTES,
     key |-> AUTH_SECRET_KEY]

\* TokenPayload(**payload)
Payload(token) == [sub |-> token.sub, role |-> token.role, exp |-> token.exp]

\* get_current_user: the payload, or None for the 401; jwt.decode refuses a
\* token signed with another key and one whose exp is earlier than now
get_current_user_IfSessionActive(token, t) ==
    IF token.key = AUTH_SECRET_KEY /\ ~(token.exp < t)
       /\ \E x \in sessions : x.token = token /\ x.is_active
    THEN Some([sub |-> token.sub, role |-> token.role, exp |-> token.exp])
    ELSE None
get_current_user(token, t) ==
    IF token.key = AUTH_SECRET_KEY /\ ~(token.exp < t)
    THEN Some([sub |-> token.sub, role |-> token.role, exp |-> token.exp])
    ELSE None

-----------------------------------------------------------------------------
(* Session store: table user_sessions.  created_at, ip_address and        *)
(* user_agent are written once and never read; they are left out.          *)

\* Column(..., onupdate=func.now()) of last_activity: every UPDATE of a row
OnUpdate(row, t) == [row EXCEPT !.last_activity = t]

\* create_session: [rows, ok]; the unique index on token refuses a second
\* row with the same token
CreateSession(rows, id, user_id, token, t) ==
    IF \E x \in rows : x.token = token
    THEN [rows |-> rows, ok |-> FALSE]
    ELSE [rows |-> rows \cup
             {[id |-> id, user_id |-> user_id, token |-> token,
               expires_at |-> t + SESSION_EXPIRE_MINUTES, last_activity |-> t,
               is_active |-> TRUE]},
          ok |-> TRUE]

\* the rows update_session_activity, get_user_sessions and
\* get_active_sessions_count select as valid
ValidSession(x, t) == x.is_active /\ x.expires_at > t

\* update_session_activity: [rows, result]
UpdateSessionActivity_Reactivate(rows, token, t) ==
    LET hit == {x \in rows : x.token = token /\ x.expires_at > t} IN
    IF hit = {} THEN [rows |-> rows, result |-> None]
    ELSE LET session == CHOOSE x \in hit : TRUE IN
         [rows |-> (rows \ {session})
                      \cup {OnUpdate([session EXCEPT !.is_active = TRUE], t)},
          result |-> Some(session.id)]
UpdateSessionActivity(rows, token, t) ==
    LET hit == {x \in rows : x.token = token /\ ValidSession(x, t)} IN
    IF hit = {} THEN [rows |-> rows, result |-> None]
    ELSE LET session == CHOOSE x \in hit : TRUE IN
         [rows |-> (rows \ {session}) \cup {OnUpdate(session, t)},
          result |-> Some(session.id)]

\* end_all_user_sessions: [rows, count]
EndAllUserSessions_AllUsers(rows, user_id, t) ==
    LET hit == {x \in rows : x.is_active} IN
    [rows |-> (rows \ hit) \cup {OnUpdate([x EXCEPT !.is_active = FALSE], t) : x \in hit},
     count |-> Cardinality(hit)]
EndAllUserSessions_CountAll(rows, user_id, t) ==
    LET hit == {x \in rows : x.user_id = user_id /\ x.is_active} IN
    [rows |-> (rows \ hit) \cup {OnUpdate([x EXCEPT !.is_active = FALSE], t) : x \in hit},
     count |-> Cardinality({x \in rows : x.user_id = user_id})]
EndAllUserSessions_Noop(rows, user_id, t) ==
    [rows |-> rows, count |-> 0]
EndAllUserSessions(rows, user_id, t) ==
    LET hit == {x \in rows : x.user_id = user_id /\ x.is_active} IN
    [rows |-> (rows \ hit) \cup {OnUpdate([x EXCEPT !.is_active = FALSE], t) : x \in hit},
     count |-> Cardinality(hit)]

\* cleanup_expired_sessions: [rows, count]; delete ... where expires_at < now
CleanupExpiredSessions_AtExpiry(rows, t) ==
    [rows |-> {x \in rows : ~(x.expires_at <= t)},
     count |-> Cardinality({x \in rows : x.expires_at <= t})]
CleanupExpiredSessions(rows, t) ==
    [rows |-> {x \in rows : ~(x.expires_at < t)},
     count |-> Cardinality({x \in rows : x.expires_at < t})]

\* the select of get_user_sessions and get_active_sessions_count
ListActiveForUser_IncludesExpired(rows, user_id, t) ==
    {x \in rows : x.user_id = user_id /\ x.is_active}
ListActiveForUser(rows, user_id, t) ==
    {x \in rows : x.user_id = user_id /\ ValidSession(x, t)}

-----------------------------------------------------------------------------
(* The auth routes and the session service, one action per call (Spec) *)

\* session rows ever inserted
MaxSessions == 3
\* minutes one step of the clock advances under Spec
SessionTickMinutes == 30
\* the clock of Spec stops here
MaxSessionTime == 90

\* session rows ever inserted under SpecCred
MaxCredSessions == 2
\* the clock of SpecCred stops here
MaxCredTime == 60

ClockStep(max_time) ==
    /\ now + SessionTickMinutes <= max_time
    /\ now' = now + SessionTickMinutes
    /\ resp' = [op |-> "tick", status |-> 0, key |-> "", n |-> 0, token |-> None]
    /\ UNCHANGED <<users, sessions, nextSessionId, issued, password_reset_codes,
                   mfa_codes, nextRid, consumed, reqs>>

Tick == ClockStep(MaxSessionTime)
CredTick == ClockStep(MaxCredTime)

Response(op, status, key, n, token) ==
    [op |-> op, status |-> status, key |-> key, n |-> n, token |-> token]

CodesFrame == UNCHANGED <<password_reset_codes, mfa_codes, nextRid, consumed, reqs>>

\* the HTTPException login raises when the user is missing or the password
\* does not verify: what the caller sees of a failed login
login_failed_RevealsUnknown(user) ==
    IF user = NoUser THEN [status |-> 404, detail |-> "User not found"]
    ELSE [status |-> 401, detail |-> "Invalid credentials"]
login_failed(user) == [status |-> 401, detail |-> "Invalid credentials"]

\* the response of login with the detail of its HTTPException ("" for none)
LoginResponse(status, key, n, token, detail, mfa_required) ==
    [op |-> "login", status |-> status, key |-> key, n |-> n, token |-> token,
     detail |-> detail, mfa_required |-> mfa_required]

\* mfa_required = hasattr(user, 'mfa_enabled') and user.mfa_enabled
MfaRequired_Never(user) == FALSE
MfaRequired(user) == user.mfa_enabled

\* POST /auth/token, while fewer than max_rows rows were ever inserted
Login(username, password, max_rows) ==
    LET user == UserByName(username) IN
    IF user = NoUser \/ ~verify_password(password, user.password)
    THEN /\ resp' = LoginResponse(login_failed(user).status, username, 0, None,
                                  login_failed(user).detail, FALSE)
         /\ UNCHANGED <<now, users, sessions, nextSessionId, issued>>
         /\ CodesFrame
    ELSE LET token == create_access_token(user.username, user.role, now)
             cs == CreateSession(sessions, nextSessionId, user.id, token, now) IN
         /\ nextSessionId <= max_rows
         /\ sessions' = cs.rows
         /\ nextSessionId' = nextSessionId + 1
         /\ issued' = IF cs.ok THEN issued \cup {token} ELSE issued
         /\ resp' = IF cs.ok THEN LoginResponse(200, username, user.id, Some(token), "",
                                                  MfaRequired(user))
                    ELSE LoginResponse(500, username, 0, None,
                                       "Internal Server Error", FALSE)
         /\ UNCHANGED <<now, users>>
         /\ CodesFrame

login(username, password) == Login(username, password, MaxSessions)
cred_login(username, password) == Login(username, password, MaxCredSessions)

\* POST /auth/logout
logout(token) ==
    LET current == get_current_user(token, now) IN
    IF current = None
    THEN /\ resp' = Response("logout", 401, token.sub, 0, None)
         /\ UNCHANGED <<now, users, sessions, nextSessionId, issued>>
         /\ CodesFrame
    ELSE LET user == UserByName(current[1].sub)
             r == EndAllUserSessions(sessions, user.id, now) IN
         /\ sessions' = IF user = NoUser THEN sessions ELSE r.rows
         /\ resp' = Response("logout", 200, token.sub, 0, Some(token))
         /\ UNCHANGED <<now, users, nextSessionId, issued>>
         /\ CodesFrame

\* the INSERT INTO hostel_audit_log of login and logout raises: the exception
\* leaves the handler, the server answers 500 and nothing of the request is
\* committed
AuditFailure(response) ==
    /\ resp' = response
    /\ UNCHANGED <<now, users, sessions, nextSessionId, issued>>
    /\ CodesFrame

\* POST /auth/token with the outcome of its audit INSERT
login_audit(username, password, audit_ok) ==
    IF audit_ok THEN cred_login(username, password)
    ELSE AuditFailure(LoginResponse(500, username, 0, None,
                                    "Internal Server Error", FALSE))

\* POST /auth/logout with the outcome of its audit INSERT, which runs only
\* for an accepted token whose user row exists
logout_audit(token, audit_ok) ==
    IF audit_ok \/ get_current_user(token, now) = None
                \/ UserByName(token.sub) = NoUser
    THEN logout(token)
    ELSE AuditFailure(Response("logout", 500, token.sub, 0, None))

\* POST /auth/change-password
change_password(token, old_password, new_password) ==
    LET current == get_current_user(token, now) IN
    IF current = None
    THEN /\ resp' = Response("change_password", 401, token.sub, 0, None)
         /\ UNCHANGED <<now, users, sessions, nextSessionId, issued>>
         /\ CodesFrame
    ELSE LET user == UserByName(current[1].sub) IN
         IF user = NoUser
         THEN /\ resp' = Response("change_password", 404, token.sub, 0, None)
              /\ UNCHANGED <<now, users, sessions, nextSessionId, issued>>
              /\ CodesFrame
         ELSE IF ~verify_password(old_password, user.password)
         THEN /\ resp' = Response("change_password", 400, token.sub, 0, None)
              /\ UNCHANGED <<now, users, sessions, nextSessionId, issued>>
              /\ CodesFrame
         ELSE \E salt \in FreshSalts(user.password) :
              /\ users' = SetPassword(users, user.id, get_password_hash(new_password, salt))
              /\ sessions' = EndAllUserSessions(sessions, user.id, now).rows
              /\ resp' = Response("change_password", 200, token.sub, user.id, None)
              /\ UNCHANGED <<now, nextSessionId, issued>>
              /\ CodesFrame

\* POST /auth/forgot-password
forgot_password(email) ==
    \E code \in ResetCodeSpace :
      LET r == CreateResetCode(password_reset_codes, now, email, code, nextRid) IN
      /\ r.result # None => nextRid <= MaxCodes
      /\ password_reset_codes' = r.store
      /\ nextRid' = IF r.result # None THEN nextRid + 1 ELSE nextRid
      /\ resp' = Response("forgot_password", 200, "", 0, None)
      /\ UNCHANGED <<now, users, sessions, nextSessionId, issued, mfa_codes,
                     consumed, reqs>>

\* POST /auth/reset-password
reset_password(email, code, new_password) ==
    LET v == VerifyResetCode(password_reset_codes, now, email, code)
        user_id == IF v.result = None THEN 0 ELSE v.result[1]
        user == UserById(user_id) IN
    /\ password_reset_codes' = v.store
    /\ consumed' = consumed \cup Consumed(v, v.result # None)
    /\ UNCHANGED <<now, nextSessionId, issued, mfa_codes, nextRid, reqs>>
    /\ IF user_id = 0
       THEN /\ resp' = Response("reset_password", 400, email, 0, None)
            /\ UNCHANGED <<users, sessions>>
       ELSE IF user = NoUser
       THEN /\ resp' = Response("reset_password", 404, email, 0, None)
            /\ UNCHANGED <<users, sessions>>
       ELSE IF Len(new_password) < MIN_RESET_PASSWORD_LEN
       THEN /\ resp' = Response("reset_password", 400, email, user_id, None)
            /\ UNCHANGED <<users, sessions>>
       ELSE \E salt \in FreshSalts(user.password) :
            /\ users' = SetPassword(users, user.id, get_password_hash(new_password, salt))
            /\ sessions' = EndAllUserSessions(sessions, user.id, now).rows
            /\ resp' = Response("reset_password", 200, email, user_id, None)

\* session_service.update_session_activity
update_session_activity(token) ==
    LET r == UpdateSessionActivity(sessions, token, now) IN
    /\ sessions' = r.rows
    /\ resp' = Response("update_session_activity", 0, token.sub,
                        IF r.result = None THEN 0 ELSE r.result[1], Some(token))
    /\ UNCHANGED <<now, users, nextSessionId, issued>>
    /\ CodesFrame

\* session_service.end_all_user_sessions
end_all_user_sessions(user_id) ==
    LET r == EndAllUserSessions(sessions, user_id, now) IN
    /\ sessions' = r.rows
    /\ resp' = Response("end_all_user_sessions", 0, ToString(user_id), r.count, None)
    /\ UNCHANGED <<now, users, nextSessionId, issued>>
    /\ CodesFrame

\* session_service.cleanup_expired_sessions
cleanup_expired_sessions ==
    LET r == CleanupExpiredSessions(sessions, now) IN
    /\ sessions' = r.rows
    /\ resp' = Response("cleanup_expired_sessions", 0, "", r.count, None)
    /\ UNCHANGED <<now, users, nextSessionId, issued>>
    /\ CodesFrame

SessionUserIds == {1, 2}

CredEmails == {"alice@x", "carol@x"}

Next ==
    \/ Tick
    \/ \E u \in Usernames, p \in Passwords : login(u, p)
    \/ \E t \in issued : logout(t)
    \/ \E t \in issued : update_session_activity(t)
    \/ \E u \in SessionUserIds : end_all_user_sessions(u)

NextCred ==
    \/ CredTick
    \/ \E u \in Usernames, p \in Passwords : cred_login(u, p)
    \/ \E t \in {x \in issued : x.sub \in CredEmails}, old \in Passwords, new \in Passwords : change_password(t, old, new)
    \/ \E e \in CredEmails : forgot_password(e)
    \/ \E e \in CredEmails, c \in SubmittedResetCodes, p \in Passwords : reset_password(e, c, p)

SpecCred == Init /\ [][NextCred]_vars

Spec == Init /\ [][Next]_vars

-----------------------------------------------------------------------------
(* Login and change-password requests in flight together (SpecRace).  Each *)
(* handler is cut at its awaits on the database: a step runs from one      *)
(* await to the next, and steps of different requests interleave.          *)

\* requests ever submitted under SpecRace
MaxRaceReqs == 3

RaceUsernames == {"alice@x"}
RaceOldPasswords == {"secret1"}
RaceNewPasswords == {"abc"}

\* a request in flight: `hash` is the stored hash the password was verified
\* against, `session_id` the row a login inserted, `snap` the rows
\* end_all_user_sessions selected
NewRaceRequest(op, key, password, new_password) ==
    [op |-> op, key |-> key, password |-> password, new_password |-> new_password,
     pc |-> "start", status |-> 0, user |-> NoUser, hash |-> None,
     session_id |-> 0, snap |-> {}]

\* a request arrives; change-password carries a bearer token get_current_user
\* accepts, whose subject is the key of the request
RaceSubmit ==
    /\ Len(reqs) < MaxRaceReqs
    /\ \E r \in {NewRaceRequest("login", u, p, "") :
                     u \in RaceUsernames, p \in RaceOldPasswords}
            \cup {NewRaceRequest("change_password", t.sub, p, n) :
                     t \in {x \in issued : get_current_user(x, now) # None},
                     p \in RaceOldPasswords, n \in RaceNewPasswords} :
          reqs' = Append(reqs, r)
    /\ UNCHANGED <<now, users, sessions, nextSessionId, issued, password_reset_codes,
                   mfa_codes, nextRid, consumed, resp>>

RaceFrame == UNCHANGED <<now, password_reset_codes, mfa_codes, nextRid, consumed, resp>>

\* login: the user select returns, verify_password runs on the loaded row;
\* the audit statements are awaited next
LoginVerify(i) ==
    /\ reqs[i].op = "login" /\ reqs[i].pc = "start"
    /\ LET user == UserByName(reqs[i].key)
           ok == user # NoUser /\ verify_password(reqs[i].password, user.password) IN
       reqs' = [reqs EXCEPT ![i].user = user,
                            ![i].hash = IF ok THEN Some(user.password) ELSE None,
                            ![i].pc = IF ok THEN "create_session" ELSE "done",
                            ![i].status = IF ok THEN 0 ELSE login_failed(user).status]
    /\ UNCHANGED <<users, sessions, nextSessionId, issued>>
    /\ RaceFrame

\* login: create_access_token from the loaded row, then the insert and
\* commit of create_session
LoginCreateSession(i) ==
    /\ reqs[i].op = "login" /\ reqs[i].pc = "create_session"
    /\ LET user == reqs[i].user
           token == create_access_token(user.username, user.role, now)
           cs == CreateSession(sessions, nextSessionId, user.id, token, now) IN
       /\ sessions' = cs.rows
       /\ nextSessionId' = nextSessionId + 1
       /\ issued' = IF cs.ok THEN issued \cup {token} ELSE issued
       /\ reqs' = [reqs EXCEPT ![i].pc = "done",
                               ![i].status = IF cs.ok THEN 200 ELSE 500,
                               ![i].session_id = IF cs.ok THEN nextSessionId ELSE 0]
    /\ UNCHANGED users
    /\ RaceFrame

\* change-password: the user select returns and verify_password runs on the
\* loaded row; the new hash is set on it and the commit is awaited
ChangeVerify(i) ==
    /\ reqs[i].op = "change_password" /\ reqs[i].pc = "start"
    /\ LET user == UserByName(reqs[i].key)
           ok == user # NoUser /\ verify_password(reqs[i].password, user.password) IN
       reqs' = [reqs EXCEPT ![i].user = user,
                            ![i].hash = IF ok THEN Some(user.password) ELSE None,
                            ![i].pc = IF ok THEN "commit" ELSE "done",
                            ![i].status = IF ok THEN 0
                                          ELSE IF user = NoUser THEN 404 ELSE 400]
    /\ UNCHANGED <<users, sessions, nextSessionId, issued>>
    /\ RaceFrame

\* change-password: the commit of the new hash; end_all_user_sessions up to
\* its select of the active rows
ChangeCommit(i) ==
    /\ reqs[i].op = "change_password" /\ reqs[i].pc = "commit"
    /\ \E salt \in FreshSalts(reqs[i].user.password) :
          users' = SetPassword(users, reqs[i].user.id,
                               get_password_hash(reqs[i].new_password, salt))
    /\ reqs' = [reqs EXCEPT ![i].pc = "end_sessions",
                            ![i].snap = {x.id : x \in {y \in sessions :
                                 y.user_id = reqs[i].user.id /\ y.is_active}}]
    /\ UNCHANGED <<sessions, nextSessionId, issued>>
    /\ RaceFrame

\* change-password: end_all_user_sessions sets the rows it selected
\* inactive and commits; the handler returns its success message
ChangeEndSessions(i) ==
    /\ reqs[i].op = "change_password" /\ reqs[i].pc = "end_sessions"
    /\ sessions' = {IF x.id \in reqs[i].snap
                    THEN OnUpdate([x EXCEPT !.is_active = FALSE], now) ELSE x :
                       x \in sessions}
    /\ reqs' = [reqs EXCEPT ![i].pc = "done", ![i].status = 200]
    /\ UNCHANGED <<users, nextSessionId, issued>>
    /\ RaceFrame

\* the clock advances between steps
RaceTick ==
    /\ CredTick
    /\ UNCHANGED reqs

NextRace ==
    \/ RaceTick
    \/ RaceSubmit
    \/ \E i \in DOMAIN reqs : LoginVerify(i)
    \/ \E i \in DOMAIN reqs : LoginCreateSession(i)
    \/ \E i \in DOMAIN reqs : ChangeVerify(i)
    \/ \E i \in DOMAIN reqs : ChangeCommit(i)
    \/ \E i \in DOMAIN reqs : ChangeEndSessions(i)

SpecRace == Init /\ [][NextRace]_vars

\* the session service with the purge of expired rows (SpecClean)
NextClean ==
    \/ Tick
    \/ \E u \in DOMAIN InitUsers, p \in {"secret1"} : login(u, p)
    \/ \E t \in issued : update_session_activity(t)
    \/ \E u \in SessionUserIds : end_all_user_sessions(u)
    \/ cleanup_expired_sessions

SpecClean == Init /\ [][NextClean]_vars

\* login and logout with an audit table that may refuse the insert
\* (SpecAudit)
NextAudit ==
    \/ CredTick
    \/ \E u \in Usernames, p \in Passwords, ok \in BOOLEAN : login_audit(u, p, ok)
    \/ \E t \in issued, ok \in BOOLEAN : logout_audit(t, ok)

SpecAudit == Init /\ [][NextAudit]_vars

-----------------------------------------------------------------------------
(* A user's own sessions: list, count and terminate by id (SpecSess) *)

\* select(UserSession).where(id == session_id, user_id == user.id)
\* ... scalar_one_or_none(): the set holds the row, or nothing
FindOwnedSession_AnyOwner(rows, session_id, user_id) ==
    {x \in rows : x.id = session_id}
FindOwnedSession(rows, session_id, user_id) ==
    {x \in rows : x.id = session_id /\ x.user_id = user_id}

\* .order_by(UserSession.last_activity.desc()): every order of the rows the
\* database may return, rows of equal last_activity in any order
OrderByLastActivityDesc(rows) ==
    LET n == Cardinality(rows) IN
    {q \in [1..n -> rows] :
        /\ \A i, j \in 1..n : i # j => q[i] # q[j]
        /\ \A i, j \in 1..n : i < j => q[i].last_activity >= q[j].last_activity}

\* one dict of the list get_user_sessions returns
SessionView(session, current_token) ==
    [id |-> session.id, last_activity |-> session.last_activity,
     expires_at |-> session.expires_at, is_current |-> session.token = current_token]

\* GET /auth/sessions
get_user_sessions(token) ==
    LET current == get_current_user(token, now)
        user == UserByName(token.sub) IN
    /\ UNCHANGED <<now, users, sessions, nextSessionId, issued>>
    /\ CodesFrame
    /\ IF current = None
       THEN resp' = [op |-> "get_user_sessions", status |-> 401, key |-> token.sub,
                     n |-> 0, rows |-> <<>>]
       ELSE IF user = NoUser
       THEN resp' = [op |-> "get_user_sessions", status |-> 404, key |-> token.sub,
                     n |-> 0, rows |-> <<>>]
       ELSE \E q \in OrderByLastActivityDesc(ListActiveForUser(sessions, user.id, now)) :
            resp' = [op |-> "get_user_sessions", status |-> 200, key |-> token.sub,
                     n |-> user.id,
                     rows |-> [i \in DOMAIN q |-> SessionView(q[i], token)]]

\* GET /auth/me, with get_active_sessions_count
get_current_user_info(token) ==
    LET current == get_current_user(token, now)
        user == UserByName(token.sub) IN
    /\ UNCHANGED <<now, users, sessions, nextSessionId, issued>>
    /\ CodesFrame
    /\ resp' = IF current = None
               THEN [op |-> "get_current_user_info", status |-> 401, key |-> token.sub,
                     n |-> 0, count |-> 0]
               ELSE IF user = NoUser
               THEN [op |-> "get_current_user_info", status |-> 404, key |-> token.sub,
                     n |-> 0, count |-> 0]
               ELSE [op |-> "get_current_user_info", status |-> 200, key |-> token.sub,
                     n |-> user.id,
                     count |-> Cardinality(ListActiveForUser(sessions, user.id, now))]

\* DELETE /auth/sessions/{session_id}; the response record keeps the
\* request (bearer token, id named) next to the status answered
delete_session(token, session_id) ==
    LET current == get_current_user(token, now)
        user == UserByName(token.sub)
        found == FindOwnedSession(sessions, session_id, user.id) IN
    /\ UNCHANGED <<now, users, nextSessionId, issued>>
    /\ CodesFrame
    /\ IF current = None
       THEN /\ resp' = Response("delete_session", 401, token.sub, session_id, Some(token))
            /\ UNCHANGED sessions
       ELSE IF user = NoUser \/ found = {}
       THEN /\ resp' = Response("delete_session", 404, token.sub, session_id, Some(token))
            /\ UNCHANGED sessions
       ELSE /\ sessions' = (sessions \ found)
                  \cup {OnUpdate([x EXCEPT !.is_active = FALSE], now) : x \in found}
            /\ resp' = Response("delete_session", 200, token.sub, session_id, Some(token))

NextSess ==
    \/ CredTick
    \/ \E u \in DOMAIN InitUsers, p \in Passwords : login(u, p)
    \/ \E t \in issued : update_session_activity(t)
    \/ \E t \in issued : get_user_sessions(t)
    \/ \E t \in issued : get_current_user_info(t)
    \/ \E t \in issued, i \in 1..(MaxSessions + 1) : delete_session(t, i)

SpecSess == Init /\ [][NextSess]_vars

-----------------------------------------------------------------------------
(* Access control gate *)

\* require_role(*allowed_roles) applied to what get_current_user returned:
\* [status, user]; 401 comes from get_current_user, 403 from role_dependency
require_role_AnyStaff(allowed_roles, current) ==
    IF current = None THEN [status |-> 401, user |-> None]
    ELSE IF current[1].role = "customer" THEN [status |-> 403, user |-> None]
    ELSE [status |-> 200, user |-> current]
require_role_StoredRole(allowed_roles, current) ==
    IF current = None THEN [status |-> 401, user |-> None]
    ELSE IF UserByName(current[1].sub).role \notin allowed_roles
    THEN [status |-> 403, user |-> None]
    ELSE [status |-> 200, user |-> current]
require_role(allowed_roles, current) ==
    IF current = None THEN [status |-> 401, user |-> None]
    ELSE IF current[1].role \notin allowed_roles THEN [status |-> 403, user |-> None]
    ELSE [status |-> 200, user |-> current]

-----------------------------------------------------------------------------
(* Bearer tokens presented to protected routes (SpecTok) *)

\* tokens create_access_token is ever asked for
MaxTokens == 2

\* User.role: receptionist, manager, cleaner, customer
Roles == {"customer", "receptionist", "manager"}
\* the allowed sets the routes pass to require_role
AllowedRoleSets == {{"manager"}, {"receptionist", "manager"},
                    {"cleaner", "receptionist", "manager"}}
TokenSubjects == {"alice@x", "bob@x"}

\* a bearer string that is no JWT at all
MalformedToken == [sub |-> "", role |-> "", exp |-> 0, key |-> ""]

\* what a client without the signing key can make of a token it holds: the
\* payload with another role or a later exp; the signature then verifies
\* under no key of the server
Tampered(token) ==
    {[token EXCEPT !.role = r, !.key = "forged"] : r \in Roles \ {token.role}}
       \cup {[token EXCEPT !.exp = @ + AUTH_TOKEN_EXPIRE_MINUTES, !.key = "forged"]}

\* every bearer string a client can present
Presentable == issued \cup UNION {Tampered(t) : t \in issued} \cup {MalformedToken}

TokFrame == UNCHANGED <<users, sessions, nextSessionId, password_reset_codes,
                        mfa_codes, nextRid, consumed, reqs>>

\* create_access_token(subject=..., role=...) called at the current time
issue_token(subject, role) ==
    /\ Cardinality(issued) < MaxTokens
    /\ issued' = issued \cup {create_access_token(subject, role, now)}
    /\ resp' = [op |-> "create_access_token",
                token |-> create_access_token(subject, role, now)]
    /\ UNCHANGED now
    /\ TokFrame

\* Depends(get_current_user) of a protected route
current_user_dependency(token) ==
    /\ resp' = [op |-> "get_current_user", token |-> token,
                result |-> get_current_user(token, now)]
    /\ UNCHANGED <<now, issued>>
    /\ TokFrame

\* Depends(require_role(*allowed_roles)) of a protected route
role_dependency(token, allowed_roles) ==
    LET gate == require_role(allowed_roles, get_current_user(token, now)) IN
    /\ resp' = [op |-> "require_role", token |-> token, allowed |-> allowed_roles,
                status |-> gate.status, user |-> gate.user]
    /\ UNCHANGED <<now, issued>>
    /\ TokFrame

NextTok ==
    \/ Tick
    \/ \E u \in TokenSubjects, r \in Roles : issue_token(u, r)
    \/ \E t \in Presentable : current_user_dependency(t)
    \/ \E t \in Presentable, a \in AllowedRoleSets : role_dependency(t, a)

SpecTok == Init /\ [][NextTok]_vars

\* C13: get_current_user returns the payload given to create_access_token
\* exactly when the presented token was produced by create_access_token and
\* its exp is later than now; for any other token, and for a produced one
\* with exp <= now, it returns nothing.
C13_TokenRoundTrip ==
    [][resp'.op = "get_current_user" =>
          LET token == resp'.token IN
          IF token \in issued /\ token.exp > now
          THEN resp'.result = Some(Payload(token))
          ELSE resp'.result = None
      ]_vars

\* C14: for a token get_current_user accepts, require_role(allowed) returns
\* the payload of get_current_user unchanged when its role is one of the
\* allowed roles and 403 with no payload otherwise; the check changes nothing
\* but the response, and two accepted tokens with the same role get the same
\* decision for the same allowed set.
C14_RequireRole ==
    [][resp'.op = "require_role" =>
          LET current == get_current_user(resp'.token, now) IN
          /\ current = None => (resp'.status = 401 /\ resp'.user = None)
          /\ current # None =>
                IF resp'.token.role \in resp'.allowed
                THEN resp'.status = 200 /\ resp'.user = current
                ELSE resp'.status = 403 /\ resp'.user = None
          /\ UNCHANGED <<now, users, sessions, nextSessionId, issued,
                         password_reset_codes, mfa_codes, nextRid, consumed, reqs>>
      ]_vars

\* a receptionist's accepted token was refused on a manager-only route while
\* a manager's token is out as well
C14_Witness ==
    /\ resp.op = "require_role" /\ resp.status = 403
    /\ resp.token \in issued /\ resp.token.role = "receptionist"
    /\ resp.allowed = {"manager"}
    /\ \E t \in issued : t.role = "manager"

-----------------------------------------------------------------------------
(* Accounts: signup, the MFA switches and the manager's staff update      *)
(* (SpecAcct)                                                              *)

\* generate_mfa_secret draws secrets.token_urlsafe(32)
MfaSecrets == {"k1", "k2"}

\* id the serial column gives the next inserted user
NextUserId(tbl) ==
    1 + Cardinality({i \in 1..Cardinality(DOMAIN tbl) :
                        \E n \in DOMAIN tbl : tbl[n].id >= i})

\* User(username=..., password=..., role="customer", mfa_enabled=False)
NewUser_Receptionist(id, username, hash) ==
    [id |-> id, username |-> username, password |-> hash, role |-> "receptionist",
     mfa_enabled |-> FALSE, mfa_secret |-> None]
NewUser(id, username, hash) ==
    [id |-> id, username |-> username, password |-> hash, role |-> "customer",
     mfa_enabled |-> FALSE, mfa_secret |-> None]

\* user.mfa_enabled = ...; user.mfa_secret = ...; commit
SetMfa(tbl, user_id, enabled, secret) ==
    [n \in DOMAIN tbl |->
        IF tbl[n].id = user_id
        THEN [tbl[n] EXCEPT !.mfa_enabled = enabled, !.mfa_secret = secret]
        ELSE tbl[n]]

\* disable_mfa: the codes of the user are dropped from the store
DisableMfa(store, user_id) ==
    IF ToString(user_id) \in DOMAIN store THEN DictDel(store, ToString(user_id))
    ELSE store

\* user.role = payload.role / user.password = hash of update_staff; an absent
\* or empty field ("") leaves the column alone
UpdateStaffRow(row, role, hash) ==
    [row EXCEPT !.role = IF role # "" THEN role ELSE @,
                !.password = IF hash # None THEN hash[1] ELSE @]

SessionFrame == UNCHANGED <<now, sessions, nextSessionId, issued>>

\* POST /auth/signup
signup(email, password) ==
    IF UserByName(email) # NoUser
    THEN /\ resp' = Response("signup", 400, email, 0, None)
         /\ UNCHANGED users
         /\ SessionFrame
         /\ CodesFrame
    ELSE \E salt \in Salts :
         LET user == NewUser(NextUserId(users), email, get_password_hash(password, salt))
             token == create_access_token(user.username, user.role, now)
             cs == CreateSession(sessions, nextSessionId, user.id, token, now) IN
         /\ nextSessionId <= MaxCredSessions
         /\ users' = DictSet(users, email, user)
         /\ sessions' = cs.rows
         /\ nextSessionId' = nextSessionId + 1
         /\ issued' = IF cs.ok THEN issued \cup {token} ELSE issued
         /\ resp' = IF cs.ok THEN Response("signup", 201, email, user.id, Some(token))
                    ELSE Response("signup", 500, email, 0, None)
         /\ UNCHANGED now
         /\ CodesFrame

\* POST /auth/mfa/enable
enable_mfa_endpoint_NoPasswordCheck(token, password) ==
    LET current == get_current_user(token, now)
        user == UserByName(token.sub) IN
    /\ current # None /\ user # NoUser
    /\ \E secret \in MfaSecrets : users' = SetMfa(users, user.id, TRUE, Some(secret))
    /\ resp' = Response("enable_mfa", 200, token.sub, user.id, None)
    /\ SessionFrame
    /\ CodesFrame
enable_mfa_endpoint(token, password) ==
    LET current == get_current_user(token, now) IN
    IF current = None
    THEN /\ resp' = Response("enable_mfa", 401, token.sub, 0, None)
         /\ UNCHANGED users /\ SessionFrame /\ CodesFrame
    ELSE LET user == UserByName(current[1].sub) IN
         IF user = NoUser
         THEN /\ resp' = Response("enable_mfa", 404, token.sub, 0, None)
              /\ UNCHANGED users /\ SessionFrame /\ CodesFrame
         ELSE IF ~verify_password(password, user.password)
         THEN /\ resp' = Response("enable_mfa", 400, token.sub, 0, None)
              /\ UNCHANGED users /\ SessionFrame /\ CodesFrame
         ELSE \E secret \in MfaSecrets :
              /\ users' = SetMfa(users, user.id, TRUE, Some(secret))
              /\ resp' = Response("enable_mfa", 200, token.sub, user.id, None)
              /\ SessionFrame /\ CodesFrame

\* POST /auth/mfa/disable
disable_mfa_endpoint(token, password) ==
    LET current == get_current_user(token, now) IN
    IF current = None
    THEN /\ resp' = Response("disable_mfa", 401, token.sub, 0, None)
         /\ UNCHANGED users /\ SessionFrame /\ CodesFrame
    ELSE LET user == UserByName(current[1].sub) IN
         IF user = NoUser
         THEN /\ resp' = Response("disable_mfa", 404, token.sub, 0, None)
              /\ UNCHANGED users /\ SessionFrame /\ CodesFrame
         ELSE IF ~verify_password(password, user.password)
         THEN /\ resp' = Response("disable_mfa", 400, token.sub, 0, None)
              /\ UNCHANGED users /\ SessionFrame /\ CodesFrame
         ELSE /\ mfa_codes' = DisableMfa(mfa_codes, user.id)
              /\ users' = SetMfa(users, user.id, FALSE, None)
              /\ resp' = Response("disable_mfa", 200, token.sub, user.id, None)
              /\ SessionFrame
              /\ UNCHANGED <<password_reset_codes, nextRid, consumed, reqs>>

\* PUT /staff/{user_id}, behind require_role("manager")
update_staff(token, user_id, role, password) ==
    LET gate == require_role({"manager"}, get_current_user(token, now))
        user == UserById(user_id) IN
    /\ SessionFrame
    /\ CodesFrame
    /\ IF gate.status # 200
       THEN /\ resp' = Response("update_staff", gate.status, token.sub, 0, None)
            /\ UNCHANGED users
       ELSE IF user = NoUser
       THEN /\ resp' = Response("update_staff", 404, token.sub, 0, None)
            /\ UNCHANGED users
       ELSE \E salt \in FreshSalts(user.password) :
            LET hash == IF password # "" THEN Some(get_password_hash(password, salt))
                        ELSE None IN
            /\ users' = [users EXCEPT ![user.username] = UpdateStaffRow(@, role, hash)]
            /\ resp' = Response("update_staff", 200, token.sub, user.id, None)

\* what the manager sends: a role or none, a password or none
StaffRoles == {"", "receptionist"}
StaffPasswords == {"", "abc"}
StaffTargetIds == {1, 3}
\* the users whose MFA switches are exercised
MfaEmails == {"alice@x"}

NextAcct ==
    \/ CredTick
    \/ \E u \in Usernames, p \in Passwords : cred_login(u, p)
    \/ \E e \in Usernames, p \in Passwords : signup(e, p)
    \/ \E t \in {x \in issued : x.sub \in MfaEmails}, p \in Passwords :
          enable_mfa_endpoint(t, p)
    \/ \E t \in {x \in issued : x.sub \in MfaEmails}, p \in Passwords :
          disable_mfa_endpoint(t, p)
    \/ \E u \in MfaUserIds : create_mfa_code(u)

SpecAcct == Init /\ [][NextAcct]_vars

\* the staff routes next to login (SpecStaff)
NextStaff ==
    \/ CredTick
    \/ \E u \in Usernames, p \in Passwords : cred_login(u, p)
    \/ \E t \in issued, u \in StaffTargetIds, r \in StaffRoles, p \in StaffPasswords :
          update_staff(t, u, r, p)

SpecStaff == Init /\ [][NextStaff]_vars

\* every operation that writes the session table, side by side (SpecLife)
LifeLoginNames == {"alice@x"}
LifeSignupNames == {"carol@x"}
LifeNewPasswords == {"abc"}
LifeResetPasswords == {"secret1"}
LifeResetCodes == {"AB12CD34"}

\* minutes one step of the clock advances under SpecLife
LifeTickMinutes == 90
\* the clock of SpecLife stops once it has reached this
MaxLifeTime == 90
\* reset codes ever stored under SpecLife
MaxLifeCodes == 1

LifeTick ==
    /\ now < MaxLifeTime
    /\ now' = now + LifeTickMinutes
    /\ resp' = Response("tick", 0, "", 0, None)
    /\ UNCHANGED <<users, sessions, nextSessionId, issued>>
    /\ CodesFrame

NextLife ==
    \/ LifeTick
    \/ \E u \in LifeLoginNames, p \in LifeResetPasswords : cred_login(u, p)
    \/ \E e \in LifeSignupNames, p \in LifeResetPasswords : signup(e, p)
    \/ \E t \in issued : logout(t)
    \/ \E t \in issued, old \in LifeResetPasswords, new \in LifeNewPasswords :
          change_password(t, old, new)
    \/ \E e \in LifeLoginNames : nextRid <= MaxLifeCodes /\ forgot_password(e)
    \/ \E e \in LifeLoginNames, c \in LifeResetCodes, p \in LifeResetPasswords :
          reset_password(e, c, p)
    \/ \E t \in issued, i \in 1..MaxCredSessions : delete_session(t, i)
    \/ \E t \in issued : update_session_activity(t)
    \/ cleanup_expired_sessions

SpecLife == Init /\ [][NextLife]_vars

\* POST /auth/mfa/verify
verify_mfa_endpoint(token, code) ==
    LET current == get_current_user(token, now) IN
    IF current = None
    THEN /\ resp' = [op |-> "verify_mfa", status |-> 401, key |-> token.sub,
                     code |-> code, detail |-> "Could not validate credentials"]
         /\ UNCHANGED users /\ SessionFrame /\ CodesFrame
    ELSE LET user == UserByName(current[1].sub) IN
         IF user = NoUser
         THEN /\ resp' = [op |-> "verify_mfa", status |-> 404, key |-> token.sub,
                          code |-> code, detail |-> "User not found"]
              /\ UNCHANGED users /\ SessionFrame /\ CodesFrame
         ELSE LET r == VerifyMfaCode(mfa_codes, now, user.id, code) IN
              /\ mfa_codes' = r.store
              /\ consumed' = consumed \cup Consumed(r, r.result)
              /\ resp' = [op |-> "verify_mfa", status |-> IF r.result THEN 200 ELSE 400,
                          key |-> token.sub, code |-> code,
                          detail |-> IF r.result THEN "" ELSE "Invalid MFA code"]
              /\ UNCHANGED users /\ SessionFrame
              /\ UNCHANGED <<password_reset_codes, nextRid, reqs>>

\* session rows ever inserted under SpecRoutes
MaxRouteSessions == 1

\* the routes of the auth router, and nothing else (SpecRoutes); the requests
\* arrive within one minute, so no token and no reset code expires
NextRoutes ==
    \/ \E u \in LifeLoginNames, p \in LifeResetPasswords :
          Login(u, p, MaxRouteSessions)
    \/ \E e \in LifeSignupNames, p \in LifeResetPasswords :
          nextSessionId <= MaxRouteSessions /\ signup(e, p)
    \/ \E t \in issued, old \in LifeResetPasswords, new \in LifeNewPasswords :
          change_password(t, old, new)
    \/ \E t \in issued : logout(t)
    \/ \E t \in issued, p \in LifeResetPasswords : enable_mfa_endpoint(t, p)
    \/ \E t \in issued, c \in SubmittedMfaCodes : verify_mfa_endpoint(t, c)
    \/ \E t \in issued, p \in LifeResetPasswords : disable_mfa_endpoint(t, p)
    \/ \E t \in issued : get_current_user_info(t)
    \/ \E t \in issued : get_user_sessions(t)
    \/ \E t \in issued, i \in 1..MaxRouteSessions : delete_session(t, i)
    \/ \E e \in LifeLoginNames : nextRid <= MaxLifeCodes /\ forgot_password(e)
    \/ \E e \in LifeLoginNames, c \in LifeResetCodes, p \in LifeResetPasswords :
          reset_password(e, c, p)

SpecRoutes == Init /\ [][NextRoutes]_vars

\* a role change by the manager between logins and role-gated requests
\* (SpecRole)
RoleTargetIds == {1, 2}
RoleChanges == {"receptionist"}

NextRole ==
    \/ CredTick
    \/ \E u \in DOMAIN InitUsers, p \in {"secret1"} : cred_login(u, p)
    \/ \E t \in issued, u \in RoleTargetIds, r \in RoleChanges :
          update_staff(t, u, r, "")
    \/ \E t \in issued, a \in AllowedRoleSets : role_dependency(t, a)

SpecRole == Init /\ [][NextRole]_vars

-----------------------------------------------------------------------------
(* The console program src/auth_lab_demo.py (SpecLab): its own SQLite      *)
(* tables users and sessions, its own signing key and PyJWT.  The tables   *)
(* are held in `users` and `sessions`, the tokens it returned in `issued`. *)

\* TOKEN_EXPIRE_MINUTES
LAB_TOKEN_EXPIRE_MINUTES == 30
\* SECRET_KEY = secrets.token_hex(32), drawn once per process
LAB_SECRET_KEY == "token_hex(32)"

\* session rows the console ever inserts
MaxLabSessions == 2
\* the clock of SpecLab stops here
MaxLabTime == 60

\* PasswordHasher.hash_password: f"{salt}${pbkdf2_hmac(...).hex()}"
hash_password(password, salt) ==
    [salt |-> salt, digest |-> <<"pbkdf2_hmac", salt, password>>]

\* PasswordHasher.verify_password
lab_verify_password(password, hashed) ==
    hash_password(password, hashed.salt) = hashed

\* DatabaseManager.create_test_user: username, password, role
LabTestUsers == {<<1, "admin", "admin123", "admin">>,
                 <<2, "manager", "manager123", "manager">>,
                 <<3, "user", "user123", "user">>}

LabUsernames == {"admin", "manager", "user", "ghost"}
LabPasswords == {"admin123", "manager123", "user123"}
\* roles the admin hands out with set_role, and required roles asked for
LabNewRoles == {"customer"}
LabRequiredRoles == {"admin", "manager", "user", "receptionist"}

LabInitUsers ==
    [n \in {u[2] : u \in LabTestUsers} |->
        LET u == CHOOSE x \in LabTestUsers : x[2] = n IN
        [id |-> u[1], username |-> n, password_hash |-> hash_password(u[3], "s1"),
         role |-> u[4]]]

LabInit ==
    /\ now = 0
    /\ users = LabInitUsers
    /\ sessions = {}
    /\ nextSessionId = 1
    /\ issued = {}
    /\ password_reset_codes = EmptyDict
    /\ mfa_codes = EmptyDict
    /\ nextRid = 1
    /\ consumed = {}
    /\ reqs = <<>>
    /\ resp = [op |-> "init"]

\* AuthManager.verify_token: the payload or None.  PyJWT releases differ on
\* a token presented exactly at its exp: accept_at_exp is the installed one
verify_token(token, t, accept_at_exp) ==
    IF token.key = LAB_SECRET_KEY
       /\ (token.exp > t \/ (accept_at_exp /\ token.exp = t))
    THEN Some([sub |-> token.sub, role |-> token.role, user_id |-> token.user_id,
               exp |-> token.exp])
    ELSE None

\* role_hierarchy.get(role, default)
RoleLevel(role, default) ==
    IF role = "admin" THEN 3
    ELSE IF role = "manager" THEN 2
    ELSE IF role = "user" THEN 1
    ELSE default

\* AuthorizationManager.check_permission
check_permission_UnknownRequiredOpen(token, required_role, t, accept_at_exp) ==
    LET payload == verify_token(token, t, accept_at_exp) IN
    IF payload = None THEN FALSE
    ELSE RoleLevel(payload[1].role, 0) >= RoleLevel(required_role, 0)
check_permission_StrictlyAbove(token, required_role, t, accept_at_exp) ==
    LET payload == verify_token(token, t, accept_at_exp) IN
    IF payload = None THEN FALSE
    ELSE RoleLevel(payload[1].role, 0) > RoleLevel(required_role, 999)
check_permission(token, required_role, t, accept_at_exp) ==
    LET payload == verify_token(token, t, accept_at_exp) IN
    IF payload = None THEN FALSE
    ELSE RoleLevel(payload[1].role, 0) >= RoleLevel(required_role, 999)

LabTick == ClockStep(MaxLabTime)

\* AuthManager.authenticate, with _create_session; the UNIQUE index on
\* sessions.token raises when the same token is inserted twice
authenticate(username, password) ==
    LET user == UserByName(username) IN
    IF user = NoUser \/ ~lab_verify_password(password, user.password_hash)
    THEN /\ resp' = [op |-> "authenticate", key |-> username, result |-> None,
                     raised |-> FALSE]
         /\ UNCHANGED <<now, users, sessions, nextSessionId, issued>>
         /\ CodesFrame
    ELSE LET token == [sub |-> user.username, role |-> user.role, user_id |-> user.id,
                       exp |-> now + LAB_TOKEN_EXPIRE_MINUTES, key |-> LAB_SECRET_KEY]
             dup == \E x \in sessions : x.token = token IN
         /\ nextSessionId <= MaxLabSessions
         /\ sessions' = IF dup THEN sessions
                        ELSE sessions \cup
                             {[id |-> nextSessionId, user_id |-> user.id, token |-> token,
                               expires_at |-> now + LAB_TOKEN_EXPIRE_MINUTES,
                               is_active |-> TRUE]}
         /\ nextSessionId' = nextSessionId + 1
         /\ issued' = IF dup THEN issued ELSE issued \cup {token}
         /\ resp' = [op |-> "authenticate", key |-> username,
                     result |-> IF dup THEN None ELSE Some(token), raised |-> dup]
         /\ UNCHANGED <<now, users>>
         /\ CodesFrame

\* ConsoleInterface.check_permission of the console logged in with token
lab_check_permission(token, required_role) ==
    \E accept_at_exp \in BOOLEAN :
      /\ resp' = [op |-> "check_permission", token |-> token,
                  required |-> required_role, accept_at_exp |-> accept_at_exp,
                  result |-> check_permission(token, required_role, now, accept_at_exp)]
      /\ UNCHANGED <<now, users, sessions, nextSessionId, issued>>
      /\ CodesFrame

\* ConsoleInterface.set_role of the console logged in with token
set_role(token, username, role) ==
    \E accept_at_exp \in BOOLEAN :
      LET allowed == check_permission(token, "admin", now, accept_at_exp)
          user == UserByName(username) IN
      /\ users' = IF allowed /\ user # NoUser
                  THEN [users EXCEPT ![username].role = role] ELSE users
      /\ resp' = [op |-> "set_role", token |-> token, key |-> username,
                  result |-> allowed /\ user # NoUser]
      /\ UNCHANGED <<now, sessions, nextSessionId, issued>>
      /\ CodesFrame

\* ConsoleInterface.change_password of the console logged in with token:
\* DatabaseManager.change_password for current_user['user_id']
lab_change_password(token, new_password) ==
    \E salt \in FreshSalts(UserById(token.user_id).password_hash) :
      /\ users' = [n \in DOMAIN users |->
                     IF users[n].id = token.user_id
                     THEN [users[n] EXCEPT !.password_hash = hash_password(new_password, salt)]
                     ELSE users[n]]
      /\ resp' = [op |-> "lab_change_password", token |-> token, n |-> token.user_id]
      /\ UNCHANGED <<now, sessions, nextSessionId, issued>>
      /\ CodesFrame

\* ConsoleInterface.terminate_session of the console logged in with token:
\* UPDATE sessions SET is_active = 0 WHERE id = ? AND user_id = ?
terminate_session(token, session_id) ==
    /\ sessions' = {IF x.id = session_id /\ x.user_id = token.user_id
                    THEN [x EXCEPT !.is_active = FALSE] ELSE x : x \in sessions}
    /\ resp' = [op |-> "terminate_session", token |-> token, n |-> session_id]
    /\ UNCHANGED <<now, users, nextSessionId, issued>>
    /\ CodesFrame

NextLab ==
    \/ LabTick
    \/ \E u \in LabUsernames, p \in LabPasswords : authenticate(u, p)
    \/ \E t \in issued, r \in LabRequiredRoles : lab_check_permission(t, r)
    \/ \E t \in issued, r \in LabNewRoles : set_role(t, "user", r)

SpecLab == LabInit /\ [][NextLab]_vars

\* the console's session and password commands (SpecLabSess)
NextLabSess ==
    \/ LabTick
    \/ \E u \in LabUsernames, p \in LabPasswords : authenticate(u, p)
    \/ \E t \in issued : lab_change_password(t, "newpass123")
    \/ \E t \in issued, i \in 1..MaxLabSessions : terminate_session(t, i)

SpecLabSess == LabInit /\ [][NextLabSess]_vars

-----------------------------------------------------------------------------
(* Claims about sessions and tokens, checked under Spec *)

SessionsOf(rows, user_id) == {x \in rows : x.user_id = user_id}

\* C4: a successful login of a user without any session row leaves exactly
\* one listed session for that user; when that user's logout has answered
\* 200 the user has no listed session, and update_session_activity on the
\* token that logged out returns None and changes no row.
C4_LoginThenLogout ==
    [][/\ (resp'.op = "login" /\ resp'.status = 200
             /\ SessionsOf(sessions, resp'.n) = {}) =>
            Cardinality(ListActiveForUser(sessions', resp'.n, now')) = 1
       /\ (resp'.op = "logout" /\ resp'.status = 200) =>
            LET token == resp'.token[1] IN
            /\ ListActiveForUser(sessions', UserByName(token.sub).id, now') = {}
            /\ UpdateSessionActivity(sessions', token, now')
                  = [rows |-> sessions', result |-> None]
      ]_vars

\* a logout answered 200 and the only session, the one of its token, is
\* inactive before its expiry
C4_Witness ==
    /\ resp.op = "logout" /\ resp.status = 200
    /\ Cardinality(sessions) = 1
    /\ \E x \in sessions :
          x.token = resp.token[1] /\ ~x.is_active /\ x.expires_at > now

\* C5: after end_all_user_sessions(u) no session of u is listed, and every
\* token issued to u whose exp is later than now is still accepted by
\* get_current_user with its own payload; in every state the answer of
\* get_current_user for an issued token depends on the token and the clock
\* alone.
C5_StatelessTokens ==
    [][/\ resp'.op = "end_all_user_sessions" =>
            \A n \in DOMAIN users :
               ToString(users[n].id) = resp'.key =>
                  /\ ListActiveForUser(sessions', users[n].id, now') = {}
                  /\ \A tok \in issued' :
                        (tok.sub = n /\ tok.exp > now') =>
                           get_current_user(tok, now') = Some(Payload(tok))
       /\ \A tok \in issued' :
            get_current_user(tok, now') =
               IF tok.exp < now' THEN None ELSE Some(Payload(tok))
      ]_vars

\* end_all_user_sessions ended a session whose token is unexpired
C5_Witness ==
    /\ resp.op = "end_all_user_sessions" /\ resp.n >= 1
    /\ \E x \in sessions :
          /\ ToString(x.user_id) = resp.key /\ ~x.is_active
          /\ x.token \in issued /\ x.token.exp > now

\* C7: end_all_user_sessions(u) returns the number of rows of u that were
\* active before it, leaves no row of u active, leaves every row of every
\* other user as it was, and a second call right after it returns 0 and
\* changes nothing.
C7_EndAllCount ==
    [][resp'.op = "end_all_user_sessions" =>
          \A u \in SessionUserIds :
             ToString(u) = resp'.key =>
                /\ resp'.n = Cardinality({x \in SessionsOf(sessions, u) : x.is_active})
                /\ \A x \in SessionsOf(sessions', u) : ~x.is_active
                /\ {x.id : x \in SessionsOf(sessions', u)}
                      = {x.id : x \in SessionsOf(sessions, u)}
                /\ sessions' \ SessionsOf(sessions', u) = sessions \ SessionsOf(sessions, u)
                /\ EndAllUserSessions(sessions', u, now')
                      = [rows |-> sessions', count |-> 0]
      ]_vars

\* end_all_user_sessions returned 3
C7_Witness ==
    /\ resp.op = "end_all_user_sessions" /\ resp.n = 3
    /\ Cardinality({x \in sessions : ToString(x.user_id) = resp.key /\ ~x.is_active}) = 3

BadCredentials(username, password) ==
    UserByName(username) = NoUser
       \/ ~verify_password(password, UserByName(username).password)

\* C10: a login with an unknown identifier or a password that does not
\* verify answers 401, returns no token and leaves the session table and
\* the issued tokens as they were; a login answered 200 returns a token
\* with the user's name and current role and adds exactly one row, active,
\* owned by that user and holding that token.
C10_LoginSessions ==
    [][/\ \A u \in Usernames, p \in Passwords :
            (resp'.op = "login" /\ login(u, p) /\ BadCredentials(u, p)) =>
               /\ resp'.status = 401 /\ resp'.token = None
               /\ sessions' = sessions /\ issued' = issued
       /\ (resp'.op = "login" /\ resp'.status = 401) => sessions' = sessions
       /\ (resp'.op = "login" /\ resp'.status = 200) =>
            LET token == resp'.token[1]
                user == UserByName(resp'.key) IN
            /\ user # NoUser
            /\ token.sub = user.username /\ token.role = user.role
            /\ issued' = issued \cup {token}
            /\ sessions \subseteq sessions'
            /\ \E x \in sessions' \ sessions :
                  /\ sessions' \ sessions = {x}
                  /\ x.user_id = user.id /\ x.token = token /\ x.is_active
      ]_vars

\* the manager logged in while other rows exist
C10_Witness ==
    /\ resp.op = "login" /\ resp.status = 200 /\ resp.key = "bob@x"
    /\ resp.token[1].role = "manager"
    /\ Cardinality(sessions) >= 2

\* what the caller of login sees: status line, error detail, token
Visible(r) == [status |-> r.status, detail |-> r.detail, token |-> r.token]

\* C11: a failed login shows its caller the same thing whether the
\* identifier is unknown or the password is wrong: the response of the step
\* equals the one the code gives in the other case (for the missing row and
\* for every stored row), and neither case changes the user or session table.
C11_LoginFailureUniform ==
    [][\A u \in Usernames, p \in Passwords :
          (resp'.op = "login" /\ login(u, p) /\ BadCredentials(u, p)) =>
             /\ Visible(resp') = login_failed(NoUser) @@ [token |-> None]
             /\ \A n \in DOMAIN users :
                   Visible(resp') = login_failed(users[n]) @@ [token |-> None]
             /\ users' = users /\ sessions' = sessions /\ issued' = issued
      ]_vars

\* a login with an unknown identifier failed right after sessions exist
C11_Witness ==
    /\ resp.op = "login" /\ resp.status = 401
    /\ resp.key \notin DOMAIN users
    /\ sessions # {}

-----------------------------------------------------------------------------
(* Claims about credential changes, checked under SpecCred *)

AllInactive(rows, user_id) == \A x \in SessionsOf(rows, user_id) : ~x.is_active

\* C6: change-password with an old password that does not verify answers
\* 400 and leaves the user table and the session table as they were; with
\* one that verifies it stores a hash that verifies the new password and
\* leaves no session of that user active.
C6_ChangePassword ==
    [][\A t \in issued, old \in Passwords, new \in Passwords :
          (resp'.op = "change_password" /\ change_password(t, old, new)
              /\ get_current_user(t, now) # None) =>
             LET user == UserByName(t.sub) IN
             IF ~verify_password(old, user.password)
             THEN /\ resp'.status = 400
                  /\ users' = users /\ sessions' = sessions
             ELSE /\ resp'.status = 200
                  /\ verify_password(new, users'[t.sub].password)
                  /\ users'[t.sub].password # user.password
                  /\ \A n \in DOMAIN users \ {t.sub} : users'[n] = users[n]
                  /\ AllInactive(sessions', user.id)
      ]_vars

\* a password was changed to one that the old one does not equal and both
\* sessions of the user are inactive
C6_Witness ==
    /\ resp.op = "change_password" /\ resp.status = 200
    /\ verify_password("abc", users[resp.key].password)
    /\ Cardinality({x \in sessions : x.user_id = resp.n /\ ~x.is_active}) = 2

\* C8: forgot-password gives one and the same response whether or not the
\* email is registered; it stores a fresh, unused record for the email,
\* replacing the earlier one, when the user exists, and leaves the store as
\* it was otherwise.
C8_ForgotPassword ==
    [][\A e \in CredEmails :
          (resp'.op = "forgot_password" /\ forgot_password(e)) =>
             /\ resp' = Response("forgot_password", 200, "", 0, None)
             /\ IF UserByName(e) # NoUser
                THEN /\ e \in DOMAIN password_reset_codes'
                     /\ password_reset_codes'[e].rid = nextRid
                     /\ ~password_reset_codes'[e].used
                     /\ password_reset_codes'[e].expires_at = now + RESET_CODE_MINUTES
                     /\ password_reset_codes'[e].user_id = UserByName(e).id
                     /\ \A k \in (DOMAIN password_reset_codes) \ {e} :
                           k \in DOMAIN password_reset_codes'
                              /\ password_reset_codes'[k] = password_reset_codes[k]
                ELSE password_reset_codes' = password_reset_codes
      ]_vars

\* a second record replaced a used first one
C8_Witness ==
    /\ resp.op = "forgot_password"
    /\ "alice@x" \in DOMAIN password_reset_codes
    /\ password_reset_codes["alice@x"].rid = 2
    /\ 1 \in consumed

\* C9: reset-password answers 200 only for a live record whose code equals
\* the submitted one and a new password of at least 6 characters; it then
\* stores a hash of the new password and leaves no session of the user
\* active; with no record, a used, an expired or another code it answers
\* 400 and leaves the user table and the session table as they were.
C9_ResetPassword ==
    [][\A e \in CredEmails, c \in SubmittedResetCodes, p \in Passwords :
          (resp'.op = "reset_password" /\ reset_password(e, c, p)) =>
             LET ok == ResetLive(password_reset_codes, now, e)
                          /\ password_reset_codes[e].code = c IN
             /\ resp'.status = 200 <=> (ok /\ Len(p) >= MIN_RESET_PASSWORD_LEN)
             /\ resp'.status = 200 =>
                   /\ verify_password(p, users'[e].password)
                   /\ users'[e].password # users[e].password
                   /\ \A n \in DOMAIN users \ {e} : users'[n] = users[n]
                   /\ AllInactive(sessions', users[e].id)
             /\ ~ok => /\ resp'.status = 400
                       /\ users' = users /\ sessions' = sessions
      ]_vars

\* a reset succeeded and ended a session
C9_Witness ==
    /\ resp.op = "reset_password" /\ resp.status = 200
    /\ \E x \in sessions : x.user_id = resp.n /\ ~x.is_active /\ x.expires_at > now

-----------------------------------------------------------------------------
(* Claims about accounts, checked under SpecAcct *)

\* C12: signup with a registered identifier answers 400 and leaves the user
\* table, the session table and the issued tokens as they were; signup with
\* a new identifier adds exactly one user, with a fresh id, role customer,
\* MFA off and a hash that verifies the password, returns a token with that
\* name and role, and adds exactly one session row, active, owned by the new
\* user and holding that token.
C12_Signup ==
    [][\A e \in Usernames, p \in Passwords :
          (resp'.op = "signup" /\ signup(e, p)) =>
             IF e \in DOMAIN users
             THEN /\ resp'.status = 400 /\ resp'.token = None
                  /\ users' = users /\ sessions' = sessions /\ issued' = issued
             ELSE /\ resp'.status = 201
                  /\ DOMAIN users' = DOMAIN users \cup {e}
                  /\ \A n \in DOMAIN users : users'[n] = users[n]
                  /\ users'[e].role = "customer"
                  /\ ~users'[e].mfa_enabled /\ users'[e].mfa_secret = None
                  /\ verify_password(p, users'[e].password)
                  /\ \A n \in DOMAIN users : users[n].id # users'[e].id
                  /\ resp'.token # None
                  /\ resp'.token[1].sub = e /\ resp'.token[1].role = "customer"
                  /\ issued' = issued \cup {resp'.token[1]}
                  /\ sessions \subseteq sessions'
                  /\ \E x \in sessions' \ sessions :
                        /\ sessions' \ sessions = {x}
                        /\ x.user_id = users'[e].id /\ x.token = resp'.token[1]
                        /\ x.is_active
                  /\ Cardinality(ListActiveForUser(sessions', users'[e].id, now')) = 1
      ]_vars

\* a new identifier was registered while another user holds a session
C12_Witness ==
    /\ resp.op = "signup" /\ resp.status = 201
    /\ resp.key = "carol@x" /\ "carol@x" \in DOMAIN users
    /\ Cardinality(sessions) = 2
    /\ \E x \in sessions : x.user_id = users["carol@x"].id /\ x.token = resp.token[1]

\* C19: an MFA enable or disable request whose bearer token is accepted and
\* whose password does not verify against the stored hash answers 400 and
\* leaves the user table and the MFA code store as they were; whenever one
\* of the two requests changes a user's mfa_enabled or mfa_secret, the
\* password it carried verifies against that user's stored hash.
C19_MfaNeedsPassword ==
    [][\A t \in issued, p \in Passwords :
          ((resp'.op = "enable_mfa" /\ enable_mfa_endpoint(t, p))
             \/ (resp'.op = "disable_mfa" /\ disable_mfa_endpoint(t, p))) =>
             /\ (get_current_user(t, now) # None
                   /\ ~verify_password(p, users[t.sub].password)) =>
                   /\ resp'.status = 400
                   /\ users' = users /\ mfa_codes' = mfa_codes
             /\ (users' # users \/ mfa_codes' # mfa_codes) =>
                   /\ get_current_user(t, now) # None
                   /\ verify_password(p, users[t.sub].password)
                   /\ \A n \in DOMAIN users \ {t.sub} : users'[n] = users[n]
             /\ resp'.status = 200 =>
                   users'[t.sub].mfa_enabled = (resp'.op = "enable_mfa")
      ]_vars

\* a disable with a wrong password was refused while MFA is on and a code of
\* the user is stored
C19_Witness ==
    /\ resp.op = "disable_mfa" /\ resp.status = 400
    /\ users[resp.key].mfa_enabled /\ users[resp.key].mfa_secret # None
    /\ ToString(users[resp.key].id) \in DOMAIN mfa_codes

-----------------------------------------------------------------------------
(* Claims about the console program's authorization, checked under SpecLab *)

\* the hierarchy as an order: pairs <<role, required>> with role at least
\* as high as required
HierarchyRoles == {"admin", "manager", "user"}
AtLeast == {<<"admin", "admin">>, <<"admin", "manager">>, <<"admin", "user">>,
            <<"manager", "manager">>, <<"manager", "user">>, <<"user", "user">>}

\* the token of a check_permission step verified in that step
Verified(r) == verify_token(r.token, now, r.accept_at_exp) # None

\* C15: check_permission grants access exactly when the token verifies and
\* the role in the token is at least as high in the hierarchy as the
\* required role; a required role outside the hierarchy is refused for every
\* token, and a token whose role is outside the hierarchy is refused for
\* every required role of the hierarchy.
C15_CheckPermission ==
    [][resp'.op = "check_permission" =>
          /\ resp'.result <=>
                (Verified(resp') /\ <<resp'.token.role, resp'.required>> \in AtLeast)
          /\ resp'.required \notin HierarchyRoles => ~resp'.result
          /\ (resp'.token.role \notin HierarchyRoles
                 /\ resp'.required \in HierarchyRoles) => ~resp'.result
          /\ users' = users /\ sessions' = sessions /\ issued' = issued
      ]_vars

\* a verified token with role customer, a role outside the hierarchy, was
\* refused for the lowest role of the hierarchy
C15_Witness ==
    /\ resp.op = "check_permission" /\ ~resp.result
    /\ Verified(resp)
    /\ resp.token.role = "customer" /\ resp.required = "user"

-----------------------------------------------------------------------------
(* Claims about a user's own sessions, checked under SpecSess *)

\* C17: a terminate-by-id from an accepted token deactivates the named
\* session when it belongs to the caller and changes no other row; for an id
\* owned by another user the caller gets the status given for an id that
\* does not exist, 404, and no row of any user changes.
C17_TerminateOwnOnly ==
    [][(resp'.op = "delete_session"
           /\ get_current_user(resp'.token[1], now) # None) =>
          LET me == UserByName(resp'.key).id
              i == resp'.n
              named == {x \in sessions : x.id = i} IN
          /\ resp'.status = IF \E x \in named : x.user_id = me THEN 200 ELSE 404
          /\ resp'.status = 200 =>
                /\ \A x \in sessions' : x.id = i => ~x.is_active
                /\ {x \in sessions' : x.id # i} = {x \in sessions : x.id # i}
                /\ {x.id : x \in sessions'} = {x.id : x \in sessions}
          /\ resp'.status = 404 => sessions' = sessions
      ]_vars

\* a terminate naming another user's active session was answered 404, after
\* the caller had terminated a session of their own
C17_Witness ==
    /\ resp.op = "delete_session" /\ resp.status = 404
    /\ \E x \in sessions :
          /\ x.id = resp.n
          /\ x.user_id # UserByName(resp.key).id
          /\ x.is_active /\ x.expires_at > now
    /\ \E x \in sessions : x.user_id = UserByName(resp.key).id /\ ~x.is_active

\* C18: the list of a user's sessions holds exactly the rows owned by that
\* user that are active with expires_at > now, each once, in an order in
\* which last_activity never increases; the count of active sessions is the
\* size of that set; neither request changes a row.
C18_ListValidSessions ==
    [][(resp'.op \in {"get_user_sessions", "get_current_user_info"}
           /\ resp'.status = 200) =>
          LET valid == {x \in sessions :
                          x.user_id = resp'.n /\ x.is_active /\ x.expires_at > now} IN
          /\ sessions' = sessions
          /\ resp'.op = "get_user_sessions" =>
                LET rows == resp'.rows IN
                /\ Len(rows) = Cardinality(valid)
                /\ {rows[i].id : i \in DOMAIN rows} = {x.id : x \in valid}
                /\ \A i \in DOMAIN rows : \E x \in valid :
                      /\ x.id = rows[i].id
                      /\ x.last_activity = rows[i].last_activity
                /\ \A i, j \in DOMAIN rows :
                      i < j => rows[i].last_activity >= rows[j].last_activity
          /\ resp'.op = "get_current_user_info" => resp'.count = Cardinality(valid)
      ]_vars

\* two sessions were listed, the later one first, while a third of the same
\* user is left out
C18_Witness ==
    /\ resp.op = "get_user_sessions" /\ resp.status = 200
    /\ Len(resp.rows) = 2
    /\ resp.rows[1].last_activity > resp.rows[2].last_activity
    /\ \E x \in sessions : x.user_id = resp.n /\ ~ValidSession(x, now)

-----------------------------------------------------------------------------
(* Claims about the staff routes, checked under SpecStaff *)

\* C20: whenever an operation has replaced a user's credential hash, that
\* user has no active session when the operation completes.
C20_HashChangeEndsSessions ==
    [][\A n \in DOMAIN users :
          (n \in DOMAIN users' /\ users'[n].password # users[n].password) =>
             AllInactive(sessions', users[n].id)
      ]_vars

\* C21: a role change by update_staff deactivates no session and leaves every
\* issued token as it is; require_role decides on a token get_current_user
\* accepts by the role embedded in the token, whatever role the user record
\* holds now; a later successful login embeds the role of the user record.
C21_RoleChangeKeepsTokens ==
    [][/\ resp'.op = "update_staff" =>
             (sessions' = sessions /\ issued' = issued)
       /\ (resp'.op = "require_role"
              /\ get_current_user(resp'.token, now) # None) =>
             (resp'.status = 200 <=> resp'.token.role \in resp'.allowed)
       /\ (resp'.op = "login" /\ resp'.status = 200) =>
             resp'.token[1].role = users[resp'.key].role
      ]_vars

\* the manager demoted to receptionist passes a manager-only gate with the
\* token of the earlier login, the session of that login still active
C21_Witness ==
    /\ resp.op = "require_role" /\ resp.status = 200
    /\ resp.allowed = {"manager"} /\ resp.token.role = "manager"
    /\ users[resp.token.sub].role = "receptionist"
    /\ \E x \in sessions : x.token = resp.token /\ x.is_active

\* C22: a login or logout whose audit write fails completes as it would
\* have otherwise: the login with credentials that verify answers 200 with a
\* token and a new active session for it, the login with bad credentials
\* answers 401, and the logout leaves the user without an active session.
C22_AuditFailureHarmless ==
    [][/\ \A u \in Usernames, p \in Passwords :
            (resp'.op = "login" /\ login_audit(u, p, FALSE)) =>
               IF BadCredentials(u, p) THEN resp'.status = 401
               ELSE /\ resp'.status = 200 /\ resp'.token # None
                    /\ \E x \in sessions' \ sessions :
                          x.token = resp'.token[1] /\ x.is_active
       /\ \A t \in issued :
            (resp'.op = "logout" /\ logout_audit(t, FALSE)
               /\ get_current_user(t, now) # None) =>
               AllInactive(sessions', UserByName(t.sub).id)
      ]_vars

\* C23: every login with credentials that verify answers 200 and adds one
\* session row of that user, valid at the time of the login together with
\* the valid rows the user had, and no two rows of the table hold the same
\* token; a second login of the user in the same second is no exception.
C23_EveryLoginNewSession ==
    [][\A u \in Usernames, p \in Passwords :
          (resp'.op = "login" /\ login(u, p) /\ ~BadCredentials(u, p)) =>
             /\ resp'.status = 200
             /\ \E x \in sessions' \ sessions :
                   /\ x.user_id = users[u].id /\ ValidSession(x, now)
                   /\ sessions' = sessions \cup {x}
             /\ \A x, y \in sessions' : x.token = y.token => x = y
      ]_vars

\* C24 as stated: no result is changed by a run of cleanup_expired_sessions;
\* among the results, the count end_all_user_sessions would return for a
\* user and whether delete_session finds a session id of a user.
C24_CleanupChangesNoResult ==
    [][resp'.op = "cleanup_expired_sessions" =>
          \A u \in SessionUserIds :
             /\ EndAllUserSessions(sessions', u, now).count
                   = EndAllUserSessions(sessions, u, now).count
             /\ \A i \in 1..MaxSessions :
                   FindOwnedSession(sessions', i, u) = {}
                      <=> FindOwnedSession(sessions, i, u) = {}
      ]_vars

\* C24: cleanup_expired_sessions deletes only rows with expires_at < now,
\* none of them valid, and changes no other row; the valid sessions of every
\* user and the result of update_session_activity for every issued token are
\* the same before and after; it returns the number of rows deleted and
\* touches nothing but the session table.
C24_CleanupFrame ==
    [][resp'.op = "cleanup_expired_sessions" =>
          /\ sessions' \subseteq sessions
          /\ \A x \in sessions \ sessions' :
                x.expires_at < now /\ ~ValidSession(x, now)
          /\ \A u \in SessionUserIds :
                ListActiveForUser(sessions', u, now) = ListActiveForUser(sessions, u, now)
          /\ \A t \in issued :
                UpdateSessionActivity(sessions', t, now).result
                   = UpdateSessionActivity(sessions, t, now).result
          /\ resp'.n = Cardinality(sessions \ sessions')
          /\ UNCHANGED <<now, users, nextSessionId, issued>>
      ]_vars

\* the purge has just deleted a row while a valid session and a row that
\* expires at this very minute are in the table
C24_Witness ==
    /\ resp.op = "cleanup_expired_sessions" /\ resp.n >= 1
    /\ \E x \in sessions : ValidSession(x, now)
    /\ \E x \in sessions : x.expires_at = now

\* C25: whenever a change-password request has returned success, no session
\* that a login created after verifying the password against the hash that
\* request replaced is valid, in every interleaving of the steps of the
\* login and change-password requests.
C25_NoSessionOfOldPassword ==
    \A i, j \in DOMAIN reqs :
       (/\ reqs[i].op = "change_password"
        /\ reqs[i].pc = "done" /\ reqs[i].status = 200
        /\ reqs[j].op = "login" /\ reqs[j].session_id # 0
        /\ reqs[j].hash = reqs[i].hash) =>
          \A x \in sessions : x.id = reqs[j].session_id => ~ValidSession(x, now)

\* C26: a login with credentials that verify takes the same step whether or
\* not the user has MFA enabled: it verifies and consumes no MFA code, and
\* unless the token it signs is already stored it answers 200 with that
\* token and inserts a valid session for it; mfa_required of the response is
\* the mfa_enabled flag of the user.
C26_LoginIgnoresMfa ==
    [][\A u \in Usernames, p \in Passwords :
          (resp'.op = "login" /\ cred_login(u, p) /\ ~BadCredentials(u, p)) =>
             LET token == create_access_token(u, users[u].role, now) IN
             /\ mfa_codes' = mfa_codes /\ consumed' = consumed /\ users' = users
             /\ IF \E x \in sessions : x.token = token
                THEN resp'.status = 500
                ELSE /\ resp'.status = 200
                     /\ resp'.token = Some(token)
                     /\ resp'.mfa_required = users[u].mfa_enabled
                     /\ \E x \in sessions' \ sessions :
                           /\ x.token = token /\ x.user_id = users[u].id
                           /\ ValidSession(x, now)
      ]_vars

\* a user with MFA enabled has logged in: token and active session, the
\* response says mfa_required, and no MFA code of the user was ever verified
C26_Witness ==
    /\ resp.op = "login" /\ resp.status = 200 /\ resp.mfa_required
    /\ users[resp.key].mfa_enabled
    /\ \E x \in sessions : x.token = resp.token[1] /\ x.is_active
    /\ consumed = {}
    /\ ToString(resp.n) \in DOMAIN mfa_codes => ~mfa_codes[ToString(resp.n)].used

\* C27: a reset-password request refused because the new password is
\* shorter than 6 characters (400 after the code was accepted) leaves the
\* user table, the session table and the reset-code store as they were.
C27_ShortPasswordKeepsCode ==
    [][(resp'.op = "reset_password" /\ resp'.status = 400 /\ resp'.n # 0) =>
          /\ users' = users /\ sessions' = sessions
          /\ password_reset_codes' = password_reset_codes
      ]_vars

\* C28: in every step of login, signup, logout, change-password,
\* reset-password, session termination, update_session_activity, the purge
\* and the clock, a session row that is inactive stays inactive and a row
\* that is not valid (inactive or expired) is not valid afterwards; a row
\* that is new to the table carries an id never used before, so a purged
\* session does not come back either.
C28_DeactivationPermanent ==
    [][\A y \in sessions' :
          /\ \A x \in sessions :
                x.id = y.id =>
                   /\ ~x.is_active => ~y.is_active
                   /\ ~ValidSession(x, now) => ~ValidSession(y, now')
                   /\ y.expires_at = x.expires_at /\ y.token = x.token
          /\ (\A x \in sessions : x.id # y.id) => y.id >= nextSessionId
      ]_vars

\* update_session_activity has just refused the token of a session that was
\* deactivated before its expiry, while another session in the table is valid
C28_Witness ==
    /\ resp.op = "update_session_activity" /\ resp.n = 0
    /\ \E x \in sessions :
          /\ x.token = resp.token[1] /\ ~x.is_active /\ x.expires_at > now
          /\ \E y \in sessions : ValidSession(y, now)

\* C29: a generate for an owner leaves that owner with one record, a new one
\* (fresh identity, unused, expiring a full TTL from now, holding the code
\* returned) whatever record the owner had, used or not, and leaves the
\* records of the other owners alone; right after it a verify for the owner
\* is accepted for the new code and for no other string, so an earlier code
\* that differs from the new one no longer verifies.  For both stores.
C29_GenerateReplaces ==
    [][/\ (resp'.op = "create_password_reset_code" /\ resp'.result # None) =>
            LET k == resp'.key IN
            /\ DOMAIN password_reset_codes' = DOMAIN password_reset_codes \cup {k}
            /\ \A e \in DOMAIN password_reset_codes \ {k} :
                  password_reset_codes'[e] = password_reset_codes[e]
            /\ password_reset_codes'[k] =
                  [code |-> resp'.result[1], expires_at |-> now + RESET_CODE_MINUTES,
                   used |-> FALSE, user_id |-> users[k].id, rid |-> nextRid]
            /\ \A e \in DOMAIN password_reset_codes : password_reset_codes[e].rid < nextRid
            /\ \A c \in SubmittedResetCodes :
                  VerifyResetCode(password_reset_codes', now', k, c).result # None
                     <=> c = resp'.result[1]
       /\ resp'.op = "create_mfa_code" =>
            LET k == resp'.key IN
            /\ DOMAIN mfa_codes' = DOMAIN mfa_codes \cup {k}
            /\ \A e \in DOMAIN mfa_codes \ {k} : mfa_codes'[e] = mfa_codes[e]
            /\ mfa_codes'[k] =
                  [code |-> resp'.result[1], expires_at |-> now + MFA_CODE_MINUTES,
                   used |-> FALSE, rid |-> nextRid]
            /\ \A e \in DOMAIN mfa_codes : mfa_codes[e].rid < nextRid
            /\ \A u \in MfaUserIds, c \in SubmittedMfaCodes :
                  ToString(u) = k =>
                     (VerifyMfaCode(mfa_codes', now', u, c).result <=> c = resp'.result[1])
      ]_vars

\* a reset code was generated for an owner whose previous record had been
\* accepted and marked used in the same minute: the second record is the
\* only one in either store
C29_Witness ==
    /\ resp.op = "create_password_reset_code" /\ resp.result # None
    /\ now = 0 /\ 1 \in consumed
    /\ DOMAIN password_reset_codes = {resp.key} /\ mfa_codes = EmptyDict
    /\ password_reset_codes[resp.key].rid = 2
    /\ ~password_reset_codes[resp.key].used

\* C30: through the routes of the auth router the MFA code store is empty
\* in every state, and every /mfa/verify request of an authenticated user,
\* whatever code it submits, is answered 400 Invalid MFA code.
C30_MfaStoreEmpty ==
    [][/\ mfa_codes = EmptyDict /\ mfa_codes' = EmptyDict
       /\ (resp'.op = "verify_mfa" /\ resp'.status \notin {401, 404}) =>
             (resp'.status = 400 /\ resp'.detail = "Invalid MFA code")
      ]_vars

\* a user who has enabled MFA submitted a code and was refused
C30_Witness ==
    /\ resp.op = "verify_mfa" /\ resp.status = 400
    /\ users[resp.key].mfa_enabled
    /\ resp.code \in MfaCodeSpace

====
